---------------------------- MODULE Spec2Model ----------------------------
(***************************************************************************)
(* Model of helmlint's branch-coverage engine (package helmlint, the file  *)
(* that holds Lint, injectComments, findIndentation, discoverComments,     *)
(* verifyCoverage and injectExceptions).                                   *)
(*                                                                         *)
(* A Go string is a sequence of atoms.  An atom is a TLA+ string; the Go   *)
(* string is the concatenation of its atoms.  The atoms are                *)
(*   " "  "\t"  "\n"         white space                                   *)
(*   "|"                     the block-scalar indicator                    *)
(*   "{{"  "-"  "if"  "else" pieces of a template action                   *)
(*   ".x}}"                  the rest of an action                         *)
(*   "/*" "helmlint:ignore" "*/}}"  pieces of the suppression annotation   *)
(*   "# helmlint:"           the marker prefix without its final space     *)
(*   "u1", "u2", ...         tokens made by uuid.NewString()               *)
(*   "k:"  "x"               other text                                    *)
(* Line indices are zero-based as in the source; lines[i] of the source is *)
(* lines[i + 1] here.                                                      *)
(***************************************************************************)
EXTENDS Integers, Sequences, FiniteSets, Bags, TLC

-----------------------------------------------------------------------------
(* Bounds of the model *)

\* longest line sequence given to findIndentation in SpecFind
MaxFindLines == 3
\* largest number of leading spaces of a generated line
MaxIndent == 2

-----------------------------------------------------------------------------
(* package strings *)

\* unicode.IsSpace, on the atoms of the model: space, \t, \n, \v, \f, \r,
\* U+0085 (NEL), U+00A0 (NBSP) and the other characters with the White_Space
\* property: U+1680, U+2000 to U+200A, U+2028, U+2029, U+202F, U+205F, U+3000
WhiteSpace ==
    {" ", "\t", "\n", "\\v", "\f", "\r", "\\u0085", "\\u00A0", "\\u1680",
     "\\u2000", "\\u2001", "\\u2002", "\\u2003", "\\u2004", "\\u2005", "\\u2006",
     "\\u2007", "\\u2008", "\\u2009", "\\u200A", "\\u2028", "\\u2029", "\\u202F",
     "\\u205F", "\\u3000"}

RECURSIVE TrimLeft(_, _)
\* strings.TrimLeft(s, cutset)
TrimLeft(s, cutset) ==
    IF s # <<>> /\ Head(s) \in cutset THEN TrimLeft(Tail(s), cutset) ELSE s

RECURSIVE TrimRight(_, _)
\* strings.TrimRight(s, cutset)
TrimRight(s, cutset) ==
    IF s # <<>> /\ s[Len(s)] \in cutset
    THEN TrimRight(SubSeq(s, 1, Len(s) - 1), cutset)
    ELSE s

\* strings.TrimSpace(s)
TrimSpace(s) == TrimRight(TrimLeft(s, WhiteSpace), WhiteSpace)

\* strings.HasSuffix(s, suffix)
HasSuffix(s, suffix) ==
    Len(s) >= Len(suffix) /\ SubSeq(s, Len(s) - Len(suffix) + 1, Len(s)) = suffix

\* strings.HasPrefix(s, prefix)
HasPrefix(s, prefix) ==
    Len(s) >= Len(prefix) /\ SubSeq(s, 1, Len(prefix)) = prefix

\* strings.TrimPrefix(s, prefix)
TrimPrefix(s, prefix) ==
    IF HasPrefix(s, prefix) THEN SubSeq(s, Len(prefix) + 1, Len(s)) ELSE s

\* strings.Contains(s, substr)
Contains(s, substr) ==
    \E k \in 0..(Len(s) - Len(substr)) : SubSeq(s, k + 1, k + Len(substr)) = substr

\* strings.Repeat(" ", n)
Repeat(c, n) == [k \in 1..n |-> c]

RECURSIVE Split(_)
\* strings.Split(s, "\n"): always at least one element
Split(s) ==
    IF \E k \in 1..Len(s) : s[k] = "\n"
    THEN LET k == CHOOSE j \in 1..Len(s) :
                      s[j] = "\n" /\ \A h \in 1..(j - 1) : s[h] # "\n"
         IN  <<SubSeq(s, 1, k - 1)>> \o Split(SubSeq(s, k + 1, Len(s)))
    ELSE <<s>>

RECURSIVE Join(_)
\* strings.Join(lines, "\n")
Join(lines) ==
    IF lines = <<>> THEN <<>>
    ELSE IF Len(lines) = 1 THEN lines[1]
    ELSE lines[1] \o <<"\n">> \o Join(Tail(lines))

-----------------------------------------------------------------------------
(* findIndentation *)

\* the scalar body's nesting increment added to the header's indentation
ScalarIncrement == 2

\* len(line) - len(strings.TrimLeft(line, " "))
LeadingSpaces(line) == Len(line) - Len(TrimLeft(line, {" "}))

\* a bug: the test for the block-scalar indicator without strings.TrimSpace
HasBarSuffixUntrimmed(line) == HasSuffix(line, <<"|">>)

\* strings.HasSuffix(strings.TrimSpace(lines[i]), "|")
HasBarSuffix(line) == HasSuffix(TrimSpace(line), <<"|">>)

\* a bug: the backward scan running one index too far
ScanContinuesPastZero(i) == i >= -1

\* the loop condition of the backward scan: i >= 0
ScanContinues(i) == i >= 0

RECURSIVE findIndentationFrom(_, _, _)
\* the loop of findIndentation from index i downwards, then its fallback
findIndentationFrom(lines, i, start) ==
    IF ScanContinues(i)
    THEN IF HasBarSuffix(lines[i + 1])
         THEN LeadingSpaces(lines[i + 1]) + ScalarIncrement
         ELSE findIndentationFrom(lines, i - 1, start)
    ELSE LeadingSpaces(lines[start + 1])

\* findIndentation(lines, start)
findIndentation(lines, start) == findIndentationFrom(lines, start, start)

-----------------------------------------------------------------------------
(* State *)

VARIABLES
    fi,        \* one call of findIndentation: its arguments, loop index i,
               \* the indices it has read, its result and its position
    chart,     \* opts.ChartDir, the caller's chart: file name -> content
    pristine,  \* history: the chart as it was when the current run began
    copy,      \* chartDir, the private copy made by copyChart
    comments,  \* the registry built by injectComments: token -> conditionalDeclRef
    nextId,    \* how many tokens uuid.NewString() has handed out
    task,      \* the instrumentation goroutine of each .yaml file
    fixtures,  \* the fixture files os.ReadDir finds in opts.FixturesDir
    rendered,  \* results/<fixture>/<file>: the output of helm template
    scanned,   \* the (fixture, file) scan goroutines that have started: the number
               \* of lines each has read, one more than its file holds once it
               \* has returned
    seenIDs,   \* the list accumulated by discoverComments
    verified,  \* the tokens whose verifyCoverage goroutine has finished
    errors,    \* the bag of messages given to t.Errorf
    written,   \* history: the chart files injectExceptions has written
    prev,      \* history: the registry, the list, the chart and the rendered
               \* output of the previous run
    opts,      \* the finalized options of the run
    run,       \* the number of the current Lint run
    pc,        \* the position of the calling goroutine
    caller,    \* what the caller of Lint passed: its options and its environment
    final,     \* the options after Finalize
    at,        \* the position of the goroutine that called Lint, task by task
    visited,   \* how many entries the loop or walk of the current stage has handled
    grp,       \* the errgroup: the state of each submitted goroutine, the first error
    called,    \* history: the stages of Lint that have been entered
    invoked,   \* history: the bag of external calls (helm, conftest, hooks)
    reports,   \* the bag of calls of t.Fatalf, t.Errorf and t.Logf
    registry,  \* the tokens registered by the instrumentation goroutines
    found,     \* the tokens appended by the scan goroutines
    received,  \* seenIDs as Lint received it from discoverComments
    disk,      \* the files and directories of the run: what became of each path
               \* that was read, written, created or removed
    given,     \* history: the options the caller passed to Lint, in order
    rest,      \* the options of the caller that are still to be applied
    optns,     \* the options struct the options are applied to
    broken,    \* the (policies directory, directory tested) pairs with a violation
    outputs,   \* the lines of the rendered file of each output directory
    scanner,   \* the scan goroutine of each rendered file: its position, the
               \* number of lines it has read, the slice value it has loaded
    mu,        \* the fixture whose scan goroutine holds the lock, "" if none
    acc        \* ids of discoverComments, the slice the goroutines append to

findVars == <<fi>>
lintVars == <<chart, pristine, copy, comments, nextId, task, fixtures, rendered,
              scanned, seenIDs, verified, errors, written, prev, opts, run, pc>>
optVars == <<given, rest, optns, broken>>
scanVars == <<outputs, scanner, mu, acc>>
runVars == <<caller, final, at, visited, grp, called, invoked, reports, registry,
             found, received, disk, given, rest, optns, broken, outputs, scanner,
             mu, acc>>
vars == <<fi, chart, pristine, copy, comments, nextId, task, fixtures, rendered,
          scanned, seenIDs, verified, errors, written, prev, opts, run, pc,
          caller, final, at, visited, grp, called, invoked, reports, registry,
          found, received, disk, given, rest, optns, broken, outputs, scanner,
          mu, acc>>

-----------------------------------------------------------------------------
(* Text of the charts of the model *)

\* "{{ if .x}}": a conditional declaration
IfLine == <<"{{", " ", "if", " ", ".x}}">>
\* "{{- if .x -}}": a declaration that trims the white space on both sides
IfTrimLine == <<"{{", "-", " ", "if", " ", ".x", " ", "-}}">>
\* "{{ if .x -}}": a declaration that trims the white space after it only
IfRightTrimLine == <<"{{", " ", "if", " ", ".x", " ", "-}}">>
\* "k: {{ if .x -}}": such a declaration after the text of its line
KeyIfRightTrimLine == <<"k:", " ">> \o IfRightTrimLine
\* "{{ else }}"
ElseLine == <<"{{", " ", "else", " ", "}}">>
\* "{{ else if .x}}"
ElseIfLine == <<"{{", " ", "else", " ", "if", " ", ".x}}">>
\* "{{ end }}"
EndLine == <<"{{", " ", "end", " ", "}}">>
\* the text of an else branch
ElseBodyLine == <<"y">>
\* "k: |": the header of a block scalar
HeaderLine == <<"k:", " ", "|">>
\* a line of plain text
PlainLine == <<"x">>

\* the text injectComments and the line check look for
IgnoreText == <<"helmlint:ignore">>
\* "{{/* helmlint:ignore */}}", the annotation written by injectExceptions
Annotation == <<"{{", "/*", " ", "helmlint:ignore", " ", "*/}}">>
\* const prefix = "# helmlint: "
MarkerPrefix == <<"# helmlint:", " ">>

Indented(n, body) == Repeat(" ", n) \o body

\* the tokens uuid.NewString() returns, in the order of the calls
UuidTable == <<"u1", "u2", "u3", "u4", "u5", "u6", "u7", "u8", "u9", "u10",
               "u11", "u12", "u13", "u14", "u15", "u16", "u17", "u18">>
Uuid(n) == UuidTable[n]

-----------------------------------------------------------------------------
(* One call of findIndentation, step by step (specification SpecFind) *)

FindOff == [lines |-> <<>>, start |-> 0, i |-> 0, reads |-> {}, result |-> 0,
            pc |-> "off"]

FindBodies ==
    { IfLine, PlainLine, HeaderLine, HeaderLine \o <<" ">>, IfLine \o <<" ", "|">> }

FindLineSet == { Indented(n, b) : n \in 0..MaxIndent, b \in FindBodies }

FindInputs == UNION { [1..n -> FindLineSet] : n \in 1..MaxFindLines }

\* one iteration of the backward scan: the loop condition holds, lines[i] is read
FindScan ==
    /\ fi.pc = "loop"
    /\ ScanContinues(fi.i)
    /\ IF fi.i \notin 0..(Len(fi.lines) - 1)
       THEN \* index out of range: the Go runtime panics
            fi' = [fi EXCEPT !.reads = @ \cup {fi.i}, !.pc = "panic"]
       ELSE IF HasBarSuffix(fi.lines[fi.i + 1])
       THEN fi' = [fi EXCEPT !.reads = @ \cup {fi.i},
                             !.result = LeadingSpaces(fi.lines[fi.i + 1]) + ScalarIncrement,
                             !.pc = "done"]
       ELSE fi' = [fi EXCEPT !.reads = @ \cup {fi.i}, !.i = fi.i - 1]
    /\ UNCHANGED runVars
    /\ UNCHANGED lintVars

\* the loop ended without a match: the indentation of lines[start] is returned
FindFallback ==
    /\ fi.pc = "loop"
    /\ ~ScanContinues(fi.i)
    /\ fi' = [fi EXCEPT !.reads = @ \cup {fi.start},
                        !.result = LeadingSpaces(fi.lines[fi.start + 1]),
                        !.pc = "done"]
    /\ UNCHANGED runVars
    /\ UNCHANGED lintVars

-----------------------------------------------------------------------------
(* The chart trees of the model *)

\* longest .yaml file of the generated charts, in lines
MaxLines == 2

Files == {"a.yaml", "b.yaml", "notes.txt"}

\* the path of each file relative to the chart directory
RelPath == [f \in Files |->
              CASE f = "a.yaml" -> <<"templates", "/", "a", ".yaml">>
                [] f = "b.yaml" -> <<"templates", "/", "b", ".yaml">>
                [] OTHER        -> <<"templates", "/", "notes", ".txt">>]

\* the private copy's directory, filepath.Join(tempDir, "chart")
ChartDirCopy == <<"tmp", "/", "chart">>

\* the path filepath.Walk hands to its callback: filepath.Join(dir, rel)
WalkPath(dir, f) == dir \o <<"/">> \o RelPath[f]

FileOfRel(rel) == CHOOSE f \in Files : RelPath[f] = rel

\* the .yaml files a fixtures directory can hold
Fixtures == {"f1", "f2"}

LintLineSet ==
    { PlainLine, IfLine, Indented(1, IfTrimLine), IfLine \o Annotation, Annotation }

\* the lines of the files whose declarations trim on the right only
RightTrimLineSet == { PlainLine, IfRightTrimLine, KeyIfRightTrimLine }

AContents ==
    { Join(ls) : ls \in UNION { [1..n -> LintLineSet] : n \in 1..MaxLines } }
        \cup { Join(ls) : ls \in UNION { [1..n -> RightTrimLineSet] : n \in 1..MaxLines } }

BContents == { Join(<<IfLine>>), Join(<<Annotation, IfLine>>) }

ChartSet ==
    { [f \in Files |-> CASE f = "a.yaml" -> a
                         [] f = "b.yaml" -> b
                         [] OTHER        -> Join(<<IfLine>>)] :
          a \in AContents, b \in BContents }

\* a directory that does not exist yet, a map or a tree without entries
Empty == <<>>

-----------------------------------------------------------------------------
(* injectComments *)

RECURSIVE SkipSpace(_, _)
\* \s* of the regular expression: the first index >= k that holds no white space
SkipSpace(s, k) ==
    IF k <= Len(s) /\ s[k] \in {" ", "\t", "\n", "\r", "\f"} THEN SkipSpace(s, k + 1) ELSE k

\* the regular expression {{-?\s*if matched at position k of s
RegexMatchesAt(s, k) ==
    /\ s[k] = "{{"
    /\ LET j == IF k + 1 <= Len(s) /\ s[k + 1] = "-" THEN k + 2 ELSE k + 1
           r == SkipSpace(s, j)
       IN  r <= Len(s) /\ s[r] = "if"

\* conditionalRegex.MatchString(line)
conditionalRegex(line) == \E k \in 1..Len(line) : RegexMatchesAt(line, k)

\* a bug (the check of an earlier version): the line before is not looked at
QualifiesOwnLineOnly(lines, i) ==
    /\ conditionalRegex(lines[i + 1])
    /\ ~Contains(lines[i + 1], IgnoreText)

\* a bug: the line before is looked at from the third line on only
QualifiesPrevFromTwo(lines, i) ==
    /\ conditionalRegex(lines[i + 1])
    /\ ~Contains(lines[i + 1], IgnoreText)
    /\ ~(i > 1 /\ Contains(lines[i], IgnoreText))

\* the negation of the condition under which the loop of injectComments continues
Qualifies(lines, i) ==
    /\ conditionalRegex(lines[i + 1])
    /\ ~Contains(lines[i + 1], IgnoreText)
    /\ ~(i > 0 /\ Contains(lines[i], IgnoreText))

\* path[len(dir)+1:]
RelativeTo(path, dir) == SubSeq(path, Len(dir) + 2, Len(path))

\* a bug: the entry records the line number counted from one
DeclRefOneBased(path, dir, i, line) ==
    [File |-> RelativeTo(path, dir), Line |-> i + 1, Expr |-> TrimSpace(line)]

\* &conditionalDeclRef{File: path[len(dir)+1:], Line: i, Expr: strings.TrimSpace(line)}
DeclRef(path, dir, i, line) ==
    [File |-> RelativeTo(path, dir), Line |-> i, Expr |-> TrimSpace(line)]

\* a bug: the marker is put before the declaration instead of after it
MarkedLineBefore(line, indentation, id) ==
    indentation \o MarkerPrefix \o <<id>> \o <<"\n">> \o line

\* fmt.Sprintf("%s\n%s# helmlint: %s", line, indentation, id)
MarkedLine(line, indentation, id) ==
    line \o <<"\n">> \o indentation \o MarkerPrefix \o <<id>>

\* info.IsDir() || !strings.HasSuffix(info.Name(), ".yaml") is false
IsYaml(f) == HasSuffix(RelPath[f], <<".yaml">>)

YamlFiles == { f \in Files : IsYaml(f) }

\* copyChart: cp -r of the chart into the temporary directory; the walk of
\* injectComments then submits one goroutine for every .yaml file
CopyChart ==
    /\ pc = "copy"
    /\ copy' = chart
    /\ pristine' = chart
    /\ task' = [f \in YamlFiles |-> [pc |-> "ready", lines |-> <<>>, i |-> 0]]
    /\ pc' = "inject"
    /\ UNCHANGED runVars
    /\ UNCHANGED <<fi, chart, comments, nextId, rendered, scanned, seenIDs,
                   verified, errors, written, prev, opts, fixtures, run>>

\* the goroutine of file f reads the file and splits it into lines
InjectRead(f) ==
    /\ pc = "inject"
    /\ task[f].pc = "ready"
    /\ task' = [task EXCEPT ![f] = [pc |-> "loop", lines |-> Split(copy[f]), i |-> 0]]
    /\ UNCHANGED runVars
    /\ UNCHANGED <<fi, chart, pristine, copy, comments, nextId, rendered, scanned,
                   seenIDs, verified, errors, written, prev, opts, fixtures, run, pc>>

\* one iteration of the loop over the lines of file f; the registry entry and
\* the rewritten line are stored under the lock
InjectLine(f) ==
    /\ pc = "inject"
    /\ task[f].pc = "loop"
    /\ task[f].i < Len(task[f].lines)
    /\ LET lines == task[f].lines
           i     == task[f].i
           line  == lines[i + 1]
       IN  IF ~Qualifies(lines, i)
           THEN /\ task' = [task EXCEPT ![f].i = i + 1]
                /\ UNCHANGED <<comments, nextId>>
           ELSE LET id == Uuid(nextId + 1)
                    indentation == Repeat(" ", findIndentation(lines, i))
                IN  /\ nextId' = nextId + 1
                    /\ comments' = (id :> DeclRef(WalkPath(ChartDirCopy, f),
                                                  ChartDirCopy, i, line)) @@ comments
                    /\ task' = [task EXCEPT
                                  ![f].lines[i + 1] = MarkedLine(line, indentation, id),
                                  ![f].i = i + 1]
    /\ UNCHANGED runVars
    /\ UNCHANGED <<fi, chart, pristine, copy, rendered, scanned, seenIDs,
                   verified, errors, written, prev, opts, fixtures, run, pc>>

\* a bug: the rewritten file goes to the caller's chart, not to the copy
InjectWriteInPlace(f) ==
    /\ pc = "inject"
    /\ task[f].pc = "loop"
    /\ task[f].i = Len(task[f].lines)
    /\ chart' = [chart EXCEPT ![f] = Join(task[f].lines)]
    /\ task' = [task EXCEPT ![f].pc = "done"]
    /\ UNCHANGED runVars
    /\ UNCHANGED <<fi, copy, pristine, comments, nextId, rendered, scanned,
                   seenIDs, verified, errors, written, prev, opts, fixtures, run, pc>>

\* os.WriteFile(path, []byte(strings.Join(lines, "\n")), 0644)
InjectWrite(f) ==
    /\ pc = "inject"
    /\ task[f].pc = "loop"
    /\ task[f].i = Len(task[f].lines)
    /\ copy' = [copy EXCEPT ![f] = Join(task[f].lines)]
    /\ task' = [task EXCEPT ![f].pc = "done"]
    /\ UNCHANGED runVars
    /\ UNCHANGED <<fi, chart, pristine, comments, nextId, rendered, scanned,
                   seenIDs, verified, errors, written, prev, opts, fixtures, run, pc>>

\* return comments, grp.Wait(): every goroutine has returned
InjectWait ==
    /\ pc = "inject"
    /\ \A f \in YamlFiles : task[f].pc = "done"
    /\ pc' = "render"
    /\ UNCHANGED runVars
    /\ UNCHANGED <<fi, chart, pristine, copy, comments, nextId, task, rendered,
                   scanned, seenIDs, verified, errors, written, prev, opts, fixtures, run>>

-----------------------------------------------------------------------------
(* renderChart: helm template, the external renderer *)

\* the atoms that close a template action
ActionEnds == {".x}}", "}}", "*/}}", "-}}"}

\* the token of a line that is exactly a marker, "" for any other line
MarkerToken(line) ==
    LET t == TrimLeft(line, {" "})
    IN  IF HasPrefix(t, MarkerPrefix) /\ Len(t) = Len(MarkerPrefix) + 1
        THEN t[Len(t)]
        ELSE ""

RECURSIVE RenderText(_)
\* text/template on the text s: an action renders to nothing, "{{-" trims the
\* white space before the action and "-}}" the white space after it
RenderText(s) ==
    IF \E k \in 1..Len(s) : s[k] = "{{"
    THEN LET k == CHOOSE j \in 1..Len(s) :
                      s[j] = "{{" /\ \A h \in 1..(j - 1) : s[h] # "{{"
         IN  IF \E e \in k..Len(s) : s[e] \in ActionEnds
             THEN LET e == CHOOSE j \in k..Len(s) :
                               s[j] \in ActionEnds /\ \A h \in k..(j - 1) : s[h] \notin ActionEnds
                      before == SubSeq(s, 1, k - 1)
                      after  == SubSeq(s, e + 1, Len(s))
                      ltrim  == k + 1 <= Len(s) /\ s[k + 1] = "-"
                      rtrim  == s[e] = "-}}"
                  IN  (IF ltrim THEN TrimRight(before, WhiteSpace) ELSE before)
                        \o RenderText(IF rtrim THEN TrimLeft(after, WhiteSpace) ELSE after)
             ELSE s
    ELSE s

\* the line holds the action else (or else if), or the action end
IsElseAction(line) == Contains(line, <<"{{", " ", "else">>)
IsEndAction(line) == Contains(line, <<"{{", " ", "end">>)

\* line k (one-based) stands in the else branch of a conditional whose own
\* branch, the one that holds the marker, is among the taken ones
InElseOfTaken(lines, k, taken) ==
    \E e \in 1..(k - 1) :
        /\ IsElseAction(lines[e])
        /\ \A h \in (e + 1)..k : ~IsEndAction(lines[h])
        /\ \E m \in 1..(e - 1) :
              /\ MarkerToken(lines[m]) \in taken
              /\ \A h \in (m + 1)..(e - 1) :
                    ~IsElseAction(lines[h]) /\ ~IsEndAction(lines[h])

\* the lines from k on that the fixture renders
RECURSIVE TakenLines(_, _, _)
TakenLines(lines, k, taken) ==
    IF k > Len(lines) THEN <<>>
    ELSE (IF /\ MarkerToken(lines[k]) = "" \/ MarkerToken(lines[k]) \in taken
             /\ ~InElseOfTaken(lines, k, taken)
          THEN <<lines[k]>> ELSE <<>>) \o TakenLines(lines, k + 1, taken)

\* the output of helm template for one file of the instrumented copy, when the
\* fixture takes exactly the branches whose tokens are in taken: the marker of
\* a branch that is not taken is not rendered, and neither is the else branch
\* of a branch that is taken
RenderTemplate(content, taken) == RenderText(Join(TakenLines(Split(content), 1, taken)))

\* the goroutine of fixture fx: helm template --output-dir results/<fixture>
Render(fx) ==
    /\ pc = "render"
    /\ fx \in fixtures
    /\ fx \notin DOMAIN rendered
    /\ \E taken \in SUBSET DOMAIN comments :
          rendered' = (fx :> [f \in YamlFiles |-> RenderTemplate(copy[f], taken)]) @@ rendered
    /\ UNCHANGED runVars
    /\ UNCHANGED <<fi, chart, pristine, copy, comments, nextId, task, scanned,
                   seenIDs, verified, errors, written, prev, opts, fixtures, run, pc>>

\* grp.Wait() of renderChart returns without error
RenderWait ==
    /\ pc = "render"
    /\ DOMAIN rendered = fixtures
    /\ pc' = "scan"
    /\ UNCHANGED runVars
    /\ UNCHANGED <<fi, chart, pristine, copy, comments, nextId, task, rendered,
                   scanned, seenIDs, verified, errors, written, prev, opts, fixtures, run>>

-----------------------------------------------------------------------------
(* discoverComments *)

\* a run of text of bufio.MaxScanTokenSize (64 KiB) bytes, as one atom
LongText == "<64 KiB of text>"

\* the line does not fit the buffer of the scanner: r.Scan() returns false
\* (bufio.ErrTooLong), and the loop ends as at the end of the file
TooLong(line) == \E k \in 1..Len(line) : line[k] = LongText

\* dropCR of bufio.ScanLines: one "\r" at the end of the line is dropped
DropCR(line) ==
    IF line # <<>> /\ line[Len(line)] = "\r" THEN SubSeq(line, 1, Len(line) - 1)
    ELSE line

\* the lines of the file as bufio.ScanLines splits them: a final empty line
\* is not a token
FileLines(content) ==
    LET ls == Split(content)
    IN  IF ls[Len(ls)] = <<>> THEN SubSeq(ls, 1, Len(ls) - 1) ELSE ls

\* the lines r.Scan() yields before it returns false: those before the first
\* line that is too long, each without its final "\r"
ScannerLines(content) ==
    LET ls == FileLines(content)
        n  == IF \E k \in 1..Len(ls) : TooLong(ls[k])
              THEN (CHOOSE k \in 1..Len(ls) :
                        TooLong(ls[k]) /\ \A j \in 1..(k - 1) : ~TooLong(ls[j])) - 1
              ELSE Len(ls)
    IN  [k \in 1..n |-> DropCR(ls[k])]

\* strings.TrimPrefix(strings.TrimSpace(line), prefix)
ExtractToken(line) == TrimPrefix(TrimSpace(line), MarkerPrefix)

\* the line r.Scan() has to come to, after k lines, for the next append: the
\* next line that contains the prefix; one more than the file holds if none is left
NextAppend(lines, k) ==
    LET S == { j \in (k + 1)..Len(lines) : Contains(lines[j], MarkerPrefix) }
    IN  IF S = {} THEN Len(lines) + 1 ELSE CHOOSE j \in S : \A i \in S : j <= i

\* the goroutine that scans results/<fx>/<f> has returned
ScanOver(fx, f) ==
    /\ <<fx, f>> \in DOMAIN scanned
    /\ scanned[<<fx, f>>] > Len(ScannerLines(rendered[fx][f]))

\* the goroutine that scans results/<fx>/<f> goes on to its next append, made
\* under the lock, or to the end of its file, where it returns
Scan(fx, f) ==
    /\ pc = "scan"
    /\ ~ScanOver(fx, f)
    /\ LET lines == ScannerLines(rendered[fx][f])
           k     == IF <<fx, f>> \in DOMAIN scanned THEN scanned[<<fx, f>>] ELSE 0
           j     == NextAppend(lines, k)
       IN  /\ seenIDs' = IF j <= Len(lines)
                         THEN Append(seenIDs, ExtractToken(lines[j]))
                         ELSE seenIDs
           /\ scanned' = (<<fx, f>> :> j) @@ scanned
    /\ UNCHANGED runVars
    /\ UNCHANGED <<fi, chart, pristine, copy, comments, nextId, task, rendered,
                   verified, errors, written, prev, opts, fixtures, run, pc>>

\* return ids, grp.Wait()
ScanWait ==
    /\ pc = "scan"
    /\ \A fx \in fixtures, f \in YamlFiles : ScanOver(fx, f)
    /\ pc' = "reconcile"
    /\ UNCHANGED runVars
    /\ UNCHANGED <<fi, chart, pristine, copy, comments, nextId, task, rendered,
                   scanned, seenIDs, verified, errors, written, prev, opts, fixtures, run>>

\* what Lint tells t when discoverComments returns an error
DiscoverFailed ==
    [text |-> "discovering comments", File |-> <<>>, Line |-> 0, Expr |-> <<>>]

\* the walk of discoverComments reports an error: discoverComments returns
\* (nil, err) without waiting for its goroutines; Lint calls t.Errorf and goes
\* on to the reconciliation with the empty list
ScanWalkError ==
    /\ pc = "scan"
    /\ seenIDs' = <<>>
    /\ errors' = errors (+) SetToBag({DiscoverFailed})
    /\ pc' = "reconcile"
    /\ UNCHANGED runVars
    /\ UNCHANGED <<fi, chart, pristine, copy, comments, nextId, task, rendered,
                   scanned, verified, written, prev, opts, fixtures, run>>

-----------------------------------------------------------------------------
(* verifyCoverage and injectExceptions *)

\* a bug: a token counts as seen only if it is the first element of the list
SeenFirstOnly(ids, id) == Len(ids) >= 1 /\ ids[1] = <<id>>

\* slices.Contains(seenIDs, id)
Seen(ids, id) == \E k \in 1..Len(ids) : ids[k] = <<id>>

\* the message of t.Errorf for an uncovered declaration
BranchNotFound(def) ==
    [text |-> "Branch was not found in the rendered chart output",
     File |-> def.File, Line |-> def.Line, Expr |-> def.Expr]

\* the goroutine verifyCoverage submits for the registry entry id
VerifyTask(id) ==
    /\ pc = "reconcile"
    /\ ~opts.WriteExceptions
    /\ id \in DOMAIN comments
    /\ id \notin verified
    /\ verified' = verified \cup {id}
    /\ errors' = IF Seen(seenIDs, id)
                 THEN errors
                 ELSE errors (+) SetToBag({BranchNotFound(comments[id])})
    /\ UNCHANGED runVars
    /\ UNCHANGED <<fi, chart, pristine, copy, comments, nextId, task, rendered,
                   scanned, seenIDs, written, prev, opts, fixtures, run, pc>>

\* grp.Wait() of verifyCoverage
VerifyWait ==
    /\ pc = "reconcile"
    /\ ~opts.WriteExceptions
    /\ verified = DOMAIN comments
    /\ pc' = "reconciled"
    /\ UNCHANGED runVars
    /\ UNCHANGED <<fi, chart, pristine, copy, comments, nextId, task, rendered,
                   scanned, seenIDs, verified, errors, written, prev, opts, fixtures, run>>

\* byFile[relPath]: the entries of the registry that are not in the list
Uncovered(ids, seen, rel) ==
    { ids[id] : id \in { t \in DOMAIN ids : ~Seen(seen, t) /\ ids[t].File = rel } }

\* the keys of byFile
UncoveredFiles(ids, seen) ==
    { ids[id].File : id \in { t \in DOMAIN ids : ~Seen(seen, t) } }

\* the orders in which the entries of one file can stand in byFile (the order
\* of a map iteration)
Orders(S) ==
    { o \in [1..Cardinality(S) -> S] : \A a, b \in 1..Cardinality(S) : a # b => o[a] # o[b] }

\* a bug: the annotation is put after the declaration
ExceptionLineAfter(line, indentation) ==
    line \o <<"\n">> \o indentation \o Annotation

\* fmt.Sprintf("%s{{/* helmlint:ignore */}}", indentation) + "\n" + lines[def.Line]
ExceptionLine(line, indentation) ==
    indentation \o Annotation \o <<"\n">> \o line

RECURSIVE ApplyExceptions(_, _)
\* the loop over the uncovered entries of one file, in the order defs
ApplyExceptions(lines, defs) ==
    IF defs = <<>> THEN lines
    ELSE LET def == Head(defs)
             indentation == Repeat(" ", findIndentation(lines, def.Line))
         IN  ApplyExceptions(
                 [lines EXCEPT ![def.Line + 1] = ExceptionLine(lines[def.Line + 1], indentation)],
                 Tail(defs))

\* one iteration of the loop over byFile: the file of the caller's chart is
\* read, rewritten and written back
InjectExceptionsFile(f) ==
    /\ pc = "reconcile"
    /\ opts.WriteExceptions
    /\ RelPath[f] \in UncoveredFiles(comments, seenIDs)
    /\ f \notin written
    /\ \E defs \in Orders(Uncovered(comments, seenIDs, RelPath[f])) :
          chart' = [chart EXCEPT ![f] = Join(ApplyExceptions(Split(chart[f]), defs))]
    /\ written' = written \cup {f}
    /\ UNCHANGED runVars
    /\ UNCHANGED <<fi, pristine, copy, comments, nextId, task, rendered, scanned,
                   seenIDs, verified, errors, prev, opts, fixtures, run, pc>>

\* injectExceptions returns nil after the last file of byFile
InjectExceptionsReturn ==
    /\ pc = "reconcile"
    /\ opts.WriteExceptions
    /\ \A f \in Files : RelPath[f] \in UncoveredFiles(comments, seenIDs) => f \in written
    /\ pc' = "reconciled"
    /\ UNCHANGED runVars
    /\ UNCHANGED <<fi, chart, pristine, copy, comments, nextId, task, rendered,
                   scanned, seenIDs, verified, errors, written, prev, opts, fixtures, run>>

\* a further Lint run on the chart an exception-mode run has rewritten
Rerun ==
    /\ pc = "reconciled"
    /\ opts.WriteExceptions
    /\ run = 1
    /\ prev' = [ids |-> comments, seenIDs |-> seenIDs, chart |-> pristine,
                rendered |-> rendered]
    /\ run' = run + 1
    /\ pc' = "copy"
    /\ copy' = Empty
    /\ comments' = Empty
    /\ task' = Empty
    /\ rendered' = Empty
    /\ scanned' = Empty
    /\ seenIDs' = <<>>
    /\ verified' = {}
    /\ errors' = EmptyBag
    /\ written' = {}
    /\ UNCHANGED runVars
    /\ UNCHANGED <<fi, chart, pristine, nextId, opts, fixtures>>

-----------------------------------------------------------------------------
(* Lint, task by task: the stages, their goroutines and their barriers *)
(* (specification SpecRun). The content of the files is left out here; the  *)
(* outcome of every read, write and external call is an input.              *)

\* the .yaml files of the chart, in the order filepath.Walk visits them; each
\* holds one declaration
RunFiles == <<"a.yaml", "b.yaml">>
TokenOf == [f \in {"a.yaml", "b.yaml"} |-> IF f = "a.yaml" THEN "u1" ELSE "u2"]

\* the fixture files, in the order os.ReadDir lists them, without ".yaml"
RunFixtures == <<"f1", "f2">>

\* opts.Visitors and opts.Recursions
RunVisitors == <<"v0", "v1">>
RunRules == <<"r0">>

\* the values of HELMLINT_WRITE_EXCEPTIONS the runs are made with
EnvValues == {"", "true", "1"}

\* runtime.NumCPU() of the machine the runs are made on
NumCPU == 1

\* the values given to WithMaxConcurrency; 0 when the option is not given
ConcurrencyValues == {0, 1, 2}

\* the callers of the runs: the environment variable is set in the runs with
\* WithMaxConcurrency(1) only, WithMaxConcurrency(2) is given without
\* WithWriteExceptions, and the default budget is left to the runs with it
Callers ==
    { c \in [WithWriteExceptions : BOOLEAN, Env : EnvValues,
              Concurrency : ConcurrencyValues] :
        /\ c.Env # "" => c.Concurrency = 1
        /\ c.Concurrency = 2 => ~c.WithWriteExceptions
        /\ c.Concurrency = 0 => c.WithWriteExceptions }

\* a nil error
Nil == <<>>

Itoa(i) == <<"0", "1", "2", "3">>[i + 1]

\* a bug: any value of the variable switches exception mode on
EnvEnablesWhenSet(value) == value # ""

\* os.Getenv("HELMLINT_WRITE_EXCEPTIONS") == "true"
EnvEnables(value) == value = "true"

\* options.Finalize, as far as Lint depends on it
Finalize(c) ==
    [WriteExceptions |-> IF ~c.WithWriteExceptions THEN EnvEnables(c.Env) ELSE TRUE,
     Concurrency     |-> IF c.Concurrency = 0 THEN NumCPU * 2 ELSE c.Concurrency]

\* a goroutine submitted to the errgroup
Task(kind, name, i) == [kind |-> kind, name |-> name, i |-> i]

Running(g) == { t \in DOMAIN g.status : g.status[t] = "running" }

\* a bug: a goroutine that has returned keeps its place in the pool
CanGoWhileUnused(g) == Cardinality(DOMAIN g.status) < final.Concurrency

\* a bug: the group has no limit
CanGoAlways(g) == TRUE

\* grp.Go blocks while opts.Concurrency goroutines are active
CanGo(g) == Cardinality(Running(g)) < final.Concurrency

\* grp.Go(f): f runs, whatever the other goroutines have returned
Go(g, t) == [g EXCEPT !.status = (t :> "running") @@ @]

\* the goroutine returns err; the group keeps the first error only
Return(g, t, err) ==
    [status |-> [g.status EXCEPT ![t] = IF err = Nil THEN "ok" ELSE "err"],
     err    |-> IF g.err = Nil THEN err ELSE g.err]

\* a bug: the barrier opens as soon as an error is there
WaitReturnsOnError(g) == Running(g) = {} \/ g.err # Nil

\* grp.Wait() returns when every submitted goroutine has returned
WaitReturns(g) == Running(g) = {}

Message(fn, msg, about) == [fn |-> fn, msg |-> msg, about |-> about]
Said(m) == reports (+) SetToBag({m})
Call(cmd, args) == invoked (+) SetToBag({[cmd |-> cmd, args |-> args]})

\* the path of a chart file in the private copy
CopyPath(f) == <<"chart", "/", f>>
\* filepath.Join(resultsDir, <fixture name without .yaml>)
OutputDir(fx) == <<"results", "/", fx>>
\* filepath.Base: the last element of the path, what stands after the last
\* separator
Base(path) ==
    LET S == { k \in 1..Len(path) : path[k] = "/" }
    IN  IF S = {} THEN path
        ELSE SubSeq(path, (CHOOSE k \in S : \A j \in S : j <= k) + 1, Len(path))
\* filepath.Join(recursionDir, fmt.Sprintf("%s-recursion-%d", filepath.Base(dir), i))
Target(dir, i) == <<"recursions", "/">> \o Base(dir) \o <<"-recursion-", Itoa(i)>>
\* filepath.Base of a target directory
TargetBase(target) == Base(target)

\* no option has been given
OptIdle ==
    /\ given = <<>>
    /\ rest = <<>>
    /\ optns = [ChartDir |-> <<>>, PoliciesDir |-> <<>>, Recursions |-> <<>>]
    /\ broken = {}

\* no scan goroutine of discoverComments is followed step by step
ScanIdle ==
    /\ outputs = <<>>
    /\ scanner = <<>>
    /\ mu = ""
    /\ acc = <<>>

RunIdle ==
    /\ caller = [WithWriteExceptions |-> FALSE, Env |-> "", Concurrency |-> 0]
    /\ final = [WriteExceptions |-> FALSE, Concurrency |-> 0]
    /\ at = "off"
    /\ visited = 0
    /\ grp = [status |-> Empty, err |-> Nil]
    /\ called = {}
    /\ invoked = EmptyBag
    /\ reports = EmptyBag
    /\ registry = {}
    /\ found = {}
    /\ received = {}
    /\ disk = Empty
    /\ OptIdle
    /\ ScanIdle

\* the variables of the line-by-line model of Lint stay as they are
LintApart == UNCHANGED findVars /\ UNCHANGED lintVars
Apart == LintApart /\ UNCHANGED optVars /\ UNCHANGED scanVars

\* the steps of the setup that can fail, each with its t.Fatalf
SetupStages == {"finalizing configuration", "creating tempdir", "copying chart"}

\* exec.Command("cp", "-r", dir, chartDir).Run()
CopyChartCall == [cmd |-> "cp", args |-> <<"chart">>]

\* the directory os.MkdirTemp creates; the other paths are relative to it
TempDir == <<".">>

\* os.MkdirTemp has succeeded: createTempDir has registered its t.Cleanup
\* (copyChart is what Lint calls next)
TempDirCreated == BagIn(CopyChartCall, invoked)

\* opts.Finalize(), grp.SetLimit, createTempDir and copyChart; injectComments
\* is entered
LintFinalize ==
    /\ at = "finalize"
    /\ final' = Finalize(caller)
    /\ invoked' = Call("cp", <<"chart">>)
    /\ called' = {"injectComments"}
    /\ at' = "inject"
    /\ UNCHANGED <<caller, visited, grp, reports, registry, found, received, disk>>
    /\ Apart

\* opts.Finalize(), os.MkdirTemp or cp fails: Lint calls t.Fatalf
LintSetupFails(stage) ==
    /\ at = "finalize"
    /\ final' = Finalize(caller)
    /\ invoked' = IF stage = "copying chart" THEN Call("cp", <<"chart">>) ELSE invoked
    /\ reports' = Said(Message("Fatalf", stage, Nil))
    /\ at' = "fatal"
    /\ UNCHANGED <<caller, visited, grp, called, registry, found, received, disk>>
    /\ Apart

\* the test ends and the t.Cleanup of createTempDir runs: with opts.Preserve
\* the directory is kept and logged, otherwise os.RemoveAll removes it or fails
Cleanup ==
    /\ at \in {"done", "fatal"}
    /\ TempDirCreated
    /\ TempDir \notin DOMAIN disk
    /\ \E outcome \in {"preserved", "removed", "remove failed"} :
          /\ disk' = (TempDir :> outcome) @@ disk
          /\ reports' = CASE outcome = "preserved" ->
                               Said(Message("Logf", "preserving temporary directory", Nil))
                          [] outcome = "remove failed" ->
                               Said(Message("Errorf", "unable to clean up tempdir", Nil))
                          [] OTHER -> reports
    /\ UNCHANGED <<caller, final, at, visited, grp, called, invoked, registry, found,
                   received>>
    /\ Apart

\* the walk of injectComments reaches a .yaml file and submits its goroutine
InjectVisit ==
    /\ at = "inject"
    /\ visited < Len(RunFiles)
    /\ CanGo(grp)
    /\ grp' = Go(grp, Task("inject", RunFiles[visited + 1], 0))
    /\ visited' = visited + 1
    /\ UNCHANGED <<caller, final, at, called, invoked, reports, registry, found,
                   received, disk>>
    /\ Apart

\* the walk reports an error: injectComments returns (nil, err) without
\* waiting, and Lint calls t.Fatalf
InjectWalkFails ==
    /\ at = "inject"
    /\ reports' = Said(Message("Fatalf", "injecting comments", <<"walk">>))
    /\ at' = "fatal"
    /\ UNCHANGED <<caller, final, visited, grp, called, invoked, registry, found,
                   received, disk>>
    /\ Apart

\* the walk ends: return comments, grp.Wait()
InjectWalkDone ==
    /\ at = "inject"
    /\ visited = Len(RunFiles)
    /\ at' = "injectWait"
    /\ UNCHANGED <<caller, final, visited, grp, called, invoked, reports, registry,
                   found, received, disk>>
    /\ Apart

\* a bug: the result of os.WriteFile is dropped
InjectErrOnReadOnly(f, outcome) ==
    IF outcome = "read failed" THEN <<"read", f>> ELSE Nil

\* what the goroutine of file f returns
InjectErr(f, outcome) ==
    CASE outcome = "read failed"  -> <<"read", f>>
      [] outcome = "write failed" -> <<"write", f>>
      [] OTHER                    -> Nil

\* the goroutine of file f reads its file: os.ReadFile fails and the goroutine
\* returns, or the declaration of the file is registered under the lock
InjectRegister(f) ==
    /\ Task("inject", f, 0) \in Running(grp)
    /\ TokenOf[f] \notin registry
    /\ \/ /\ disk' = (CopyPath(f) :> "read failed") @@ disk
          /\ grp' = Return(grp, Task("inject", f, 0), InjectErr(f, "read failed"))
          /\ UNCHANGED registry
       \/ /\ registry' = registry \cup {TokenOf[f]}
          /\ UNCHANGED <<grp, disk>>
    /\ UNCHANGED <<caller, final, at, visited, called, invoked, reports, found, received>>
    /\ Apart

\* the goroutine of file f, its declaration registered, returns what
\* os.WriteFile returns
InjectReturn(f) ==
    /\ Task("inject", f, 0) \in Running(grp)
    /\ TokenOf[f] \in registry
    /\ \E outcome \in {"rewritten", "write failed"} :
          /\ disk' = (CopyPath(f) :> outcome) @@ disk
          /\ grp' = Return(grp, Task("inject", f, 0), InjectErr(f, outcome))
    /\ UNCHANGED <<caller, final, at, visited, called, invoked, reports, registry,
                   found, received>>
    /\ Apart

\* grp.Wait() of injectComments returns; on an error Lint calls t.Fatalf,
\* otherwise renderChart is entered
InjectBarrier ==
    /\ at = "injectWait"
    /\ WaitReturns(grp)
    /\ IF grp.err # Nil
       THEN /\ reports' = Said(Message("Fatalf", "injecting comments", grp.err))
            /\ at' = "fatal"
            /\ UNCHANGED <<called, visited>>
       ELSE /\ at' = "render"
            /\ called' = called \cup {"renderChart"}
            /\ visited' = 0
            /\ UNCHANGED reports
    /\ UNCHANGED <<caller, final, grp, invoked, registry, found, received, disk>>
    /\ Apart

\* defer func() { t.Logf("rendered the chart for every fixture in %s", ...) }():
\* runs when renderChart is left, by return or by t.Fatalf
RenderDeferred ==
    SetToBag({Message("Logf", "rendered the chart for every fixture", Nil)})

\* os.ReadDir(opts.FixturesDir) fails
RenderReadDirFails ==
    /\ at = "render"
    /\ visited = 0
    /\ reports' = Said(Message("Fatalf", "reading fixtures", Nil)) (+) RenderDeferred
    /\ at' = "fatal"
    /\ UNCHANGED <<caller, final, visited, grp, called, invoked, registry, found,
                   received, disk>>
    /\ Apart

\* the loop of renderChart submits helm template for the next fixture
RenderGo ==
    /\ at = "render"
    /\ visited < Len(RunFixtures)
    /\ CanGo(grp)
    /\ grp' = Go(grp, Task("render", RunFixtures[visited + 1], 0))
    /\ invoked' = Call("helm", OutputDir(RunFixtures[visited + 1]))
    /\ visited' = visited + 1
    /\ UNCHANGED <<caller, final, at, called, reports, registry, found, received, disk>>
    /\ Apart

RenderLoopDone ==
    /\ at = "render"
    /\ visited = Len(RunFixtures)
    /\ at' = "renderWait"
    /\ UNCHANGED <<caller, final, visited, grp, called, invoked, reports, registry,
                   found, received, disk>>
    /\ Apart

\* fmt.Errorf("rendering chart with fixture %q: %s", fixture.Name(), string(out))
RenderErr(fx) == <<"rendering chart with fixture", fx>>

\* helm template returns for fixture fx
RenderReturn(fx) ==
    /\ Task("render", fx, 0) \in Running(grp)
    /\ \E ok \in BOOLEAN :
          grp' = Return(grp, Task("render", fx, 0), IF ok THEN Nil ELSE RenderErr(fx))
    /\ UNCHANGED <<caller, final, at, visited, called, invoked, reports, registry,
                   found, received, disk>>
    /\ Apart

\* if err := grp.Wait(); err != nil { t.Fatalf("rendering chart: %s", err) }
RenderBarrier ==
    /\ at = "renderWait"
    /\ WaitReturns(grp)
    /\ IF grp.err # Nil
       THEN /\ reports' = Said(Message("Fatalf", "rendering chart", grp.err))
                               (+) RenderDeferred
            /\ at' = "fatal"
            /\ UNCHANGED <<called, visited>>
       ELSE /\ at' = "scan"
            /\ called' = called \cup {"discoverComments"}
            /\ visited' = 0
            /\ reports' = reports (+) RenderDeferred
    /\ UNCHANGED <<caller, final, grp, invoked, registry, found, received, disk>>
    /\ Apart

\* what Lint does with the result of discoverComments, and where it goes
\* next: verifyCoverage or injectExceptions
AfterDiscover(err) ==
    /\ reports' = IF err # Nil
                  THEN Said(Message("Errorf", "discovering comments", err))
                  ELSE reports
    /\ at' = "reconcile"

\* the walk of discoverComments reaches a rendered .yaml file (one for each
\* output directory) and submits its scan goroutine
ScanVisit ==
    /\ at = "scan"
    /\ visited < Len(RunFixtures)
    /\ CanGo(grp)
    /\ grp' = Go(grp, Task("scan", RunFixtures[visited + 1], 0))
    /\ visited' = visited + 1
    /\ UNCHANGED <<caller, final, at, called, invoked, reports, registry, found,
                   received, disk>>
    /\ Apart

\* the walk reports an error: discoverComments returns (nil, err) without
\* waiting; Lint calls t.Errorf and goes on
ScanWalkFails ==
    /\ at = "scan"
    /\ received' = {}
    /\ AfterDiscover(<<"walk">>)
    /\ UNCHANGED <<caller, final, visited, grp, called, invoked, registry, found, disk>>
    /\ Apart

ScanWalkDone ==
    /\ at = "scan"
    /\ visited = Len(RunFixtures)
    /\ at' = "scanWait"
    /\ UNCHANGED <<caller, final, visited, grp, called, invoked, reports, registry,
                   found, received, disk>>
    /\ Apart

\* the rendered file of an output directory
RenderedPath(fx) == OutputDir(fx) \o <<"/", "a.yaml">>

\* the scan goroutine of an output directory opens its file: os.Open fails
\* and the goroutine returns, or the scanner is set up
ScanOpened(fx) ==
    /\ Task("scan", fx, 0) \in Running(grp)
    /\ RenderedPath(fx) \notin DOMAIN disk
    /\ \/ /\ disk' = (RenderedPath(fx) :> "open failed") @@ disk
          /\ grp' = Return(grp, Task("scan", fx, 0), <<"open", fx>>)
       \/ /\ disk' = (RenderedPath(fx) :> "opened") @@ disk
          /\ UNCHANGED grp
    /\ UNCHANGED <<caller, final, at, visited, called, invoked, reports, registry,
                   found, received>>
    /\ Apart

\* the scan goroutine comes to a marker line and appends its token to ids,
\* under the lock (found is the set of the tokens in ids: a token that is
\* appended again leaves it as it is)
ScanAppended(fx, id) ==
    /\ Task("scan", fx, 0) \in Running(grp)
    /\ RenderedPath(fx) \in DOMAIN disk
    /\ id \in registry \ found
    /\ found' = found \cup {id}
    /\ UNCHANGED <<caller, final, at, visited, grp, called, invoked, reports,
                   registry, received, disk>>
    /\ Apart

\* the scanner of the goroutine is at the end of its file: return nil
ScanReturn(fx) ==
    /\ Task("scan", fx, 0) \in Running(grp)
    /\ RenderedPath(fx) \in DOMAIN disk
    /\ grp' = Return(grp, Task("scan", fx, 0), Nil)
    /\ UNCHANGED <<caller, final, at, visited, called, invoked, reports, registry,
                   found, received, disk>>
    /\ Apart

\* return ids, grp.Wait()
ScanBarrier ==
    /\ at = "scanWait"
    /\ WaitReturns(grp)
    /\ received' = found
    /\ AfterDiscover(grp.err)
    /\ UNCHANGED <<caller, final, visited, grp, called, invoked, registry, found, disk>>
    /\ Apart

\* a bug: the run keeps quiet about a directory that passed
RunConftestQuiet(ok, dir) ==
    IF ok THEN EmptyBag
    ELSE SetToBag({Message("Errorf", "Conftest failure", Base(dir))})

\* what runConftest tells t: the output is logged on success and reported on
\* failure
RunConftest(ok, dir) ==
    IF ok THEN SetToBag({Message("Logf", "Conftest output", Base(dir))})
    ELSE SetToBag({Message("Errorf", "Conftest failure", Base(dir))})

\* a bug: the run stops at the first coverage failure
AfterVerifyStops(g) ==
    IF \E t \in DOMAIN g.status : t.kind = "verify" /\ g.status[t] = "err"
    THEN "fatal" ELSE "walk"

\* verifyCoverage returns nothing: whatever its goroutines reported, Lint
\* goes on to walkRenderedChart
AfterVerify(g) == "walk"

\* byFile: the files with a registered declaration that seenIDs does not hold
ByFile == { f \in DOMAIN TokenOf : TokenOf[f] \in registry \ received }

\* filepath.Join(opts.ChartDir, relPath): the file of the caller's chart
SourcePath(f) == <<"..", "/", f>>

\* t.Logf("Injected exceptions into %s", relPath)
InjectedLog(f) == Message("Logf", "Injected exceptions into", <<f>>)

\* if opts.WriteExceptions: injectExceptions runs in the calling goroutine
InjectExceptionsRun ==
    /\ at = "reconcile"
    /\ final.WriteExceptions
    /\ called' = called \cup {"injectExceptions"}
    /\ at' = "exceptions"
    /\ UNCHANGED <<caller, final, visited, grp, invoked, reports, registry, found,
                   received, disk>>
    /\ Apart

\* the loop over byFile comes to file f: the file is rewritten and logged, or
\* os.ReadFile or os.WriteFile fails, injectExceptions returns the error, Lint
\* reports it with t.Errorf and enters walkRenderedChart
InjectExceptionsWrite(f) ==
    /\ at = "exceptions"
    /\ f \in ByFile
    /\ SourcePath(f) \notin DOMAIN disk
    /\ \/ /\ disk' = (SourcePath(f) :> "annotated") @@ disk
          /\ reports' = Said(InjectedLog(f))
          /\ UNCHANGED <<at, called, visited>>
       \/ /\ disk' = (SourcePath(f) :> "failed") @@ disk
          /\ reports' = Said(Message("Errorf", "injecting exceptions", Nil))
          /\ called' = called \cup {"walkRenderedChart"}
          /\ at' = "walk"
          /\ visited' = 0
    /\ UNCHANGED <<caller, final, grp, invoked, registry, found, received>>
    /\ Apart

\* every file of byFile is rewritten: injectExceptions returns nil and
\* walkRenderedChart is entered
InjectExceptionsEnd ==
    /\ at = "exceptions"
    /\ \A f \in ByFile : SourcePath(f) \in DOMAIN disk
    /\ called' = called \cup {"walkRenderedChart"}
    /\ at' = "walk"
    /\ visited' = 0
    /\ UNCHANGED <<caller, final, grp, invoked, reports, registry, found, received, disk>>
    /\ Apart

\* else: verifyCoverage is entered
VerifyEnter ==
    /\ at = "reconcile"
    /\ ~final.WriteExceptions
    /\ called' = called \cup {"verifyCoverage"}
    /\ at' = "verify"
    /\ UNCHANGED <<caller, final, visited, grp, invoked, reports, registry, found,
                   received, disk>>
    /\ Apart

\* the loop over the registry submits the goroutine of the next entry
VerifyGo(id) ==
    /\ at = "verify"
    /\ id \in registry
    /\ Task("verify", id, 0) \notin DOMAIN grp.status
    /\ CanGo(grp)
    /\ grp' = Go(grp, Task("verify", id, 0))
    /\ UNCHANGED <<caller, final, at, visited, called, invoked, reports, registry,
                   found, received, disk>>
    /\ Apart

VerifyLoopDone ==
    /\ at = "verify"
    /\ \A id \in registry : Task("verify", id, 0) \in DOMAIN grp.status
    /\ at' = "verifyWait"
    /\ UNCHANGED <<caller, final, visited, grp, called, invoked, reports, registry,
                   found, received, disk>>
    /\ Apart

\* the goroutine of entry id: slices.Contains(seenIDs, id), or t.Errorf
VerifyReturn(id) ==
    /\ Task("verify", id, 0) \in Running(grp)
    /\ IF id \in received
       THEN /\ grp' = Return(grp, Task("verify", id, 0), Nil)
            /\ UNCHANGED reports
       ELSE /\ reports' = Said(Message("Errorf", "Branch was not found", <<id>>))
            /\ grp' = Return(grp, Task("verify", id, 0), <<"branch not found">>)
    /\ UNCHANGED <<caller, final, at, visited, called, invoked, registry, found,
                   received, disk>>
    /\ Apart

\* grp.Wait() of verifyCoverage returns; walkRenderedChart is entered
VerifyBarrier ==
    /\ at = "verifyWait"
    /\ WaitReturns(grp)
    /\ at' = AfterVerify(grp)
    /\ called' = IF AfterVerify(grp) = "walk" THEN called \cup {"walkRenderedChart"}
                 ELSE called
    /\ visited' = 0
    /\ UNCHANGED <<caller, final, grp, invoked, reports, registry, found, received, disk>>
    /\ Apart

\* a bug: only the first visitor is called
WalkItemsOfFirstVisitor(fx) ==
    <<Task("conftest", fx, 0), Task("visitor", fx, 0)>>
        \o [r \in 1..Len(RunRules) |-> Task("recurse", fx, r - 1)]

\* what walkRenderedChart submits for one output directory, in this order: the
\* policy pass, the visitors, the recursion rules
WalkItemsOf(fx) ==
    <<Task("conftest", fx, 0)>>
        \o [v \in 1..Len(RunVisitors) |-> Task("visitor", fx, v - 1)]
        \o [r \in 1..Len(RunRules) |-> Task("recurse", fx, r - 1)]

RECURSIVE WalkItemsFrom(_)
WalkItemsFrom(k) ==
    IF k > Len(RunFixtures) THEN <<>>
    ELSE WalkItemsOf(RunFixtures[k]) \o WalkItemsFrom(k + 1)

WalkItems == WalkItemsFrom(1)

\* the call each goroutine of walkRenderedChart starts with
WalkCall(t) ==
    CASE t.kind = "conftest" -> Call("conftest", OutputDir(t.name))
      [] t.kind = "visitor"  -> Call("visitor", <<Itoa(t.i)>> \o OutputDir(t.name))
      [] OTHER               -> Call("extract", <<Itoa(t.i)>> \o OutputDir(t.name)
                                                  \o Target(OutputDir(t.name), t.i))

\* the loops of walkRenderedChart come to the next item: os.MkdirAll of a
\* rule's target fails (t.Errorf, continue), or the goroutine is submitted
WalkGo ==
    /\ at = "walk"
    /\ visited < Len(WalkItems)
    /\ LET t == WalkItems[visited + 1]
       IN  \/ /\ t.kind = "recurse"
              /\ reports' = Said(Message("Errorf", "unable to create recursion directory",
                                         TargetBase(Target(OutputDir(t.name), t.i))))
              /\ UNCHANGED <<grp, invoked>>
           \/ /\ CanGo(grp)
              /\ grp' = Go(grp, t)
              /\ invoked' = WalkCall(t)
              /\ UNCHANGED reports
    /\ visited' = visited + 1
    /\ UNCHANGED <<caller, final, at, called, registry, found, received, disk>>
    /\ Apart

WalkLoopDone ==
    /\ at = "walk"
    /\ visited = Len(WalkItems)
    /\ at' = "walkWait"
    /\ UNCHANGED <<caller, final, visited, grp, called, invoked, reports, registry,
                   found, received, disk>>
    /\ Apart

\* conftest test --policy opts.PoliciesDir returns for an output directory
ConftestReturn(fx) ==
    /\ Task("conftest", fx, 0) \in Running(grp)
    /\ \E ok \in BOOLEAN :
          /\ reports' = reports (+) RunConftest(ok, OutputDir(fx))
          /\ grp' = Return(grp, Task("conftest", fx, 0),
                           IF ok THEN Nil ELSE <<"conftest", fx>>)
    /\ UNCHANGED <<caller, final, at, visited, called, invoked, registry, found,
                   received, disk>>
    /\ Apart

\* a visitor returns
VisitorReturn(fx, v) ==
    /\ Task("visitor", fx, v) \in Running(grp)
    /\ grp' = Return(grp, Task("visitor", fx, v), Nil)
    /\ UNCHANGED <<caller, final, at, visited, called, invoked, reports, registry,
                   found, received, disk>>
    /\ Apart

\* a bug: the goroutine goes on after the error of rule.Fn
ReturnsOnErrorNever(outcome) == FALSE

\* if err := rule.Fn(dir, target); err != nil { ...; return err }
ReturnsOnError(outcome) == outcome = "error"

\* a bug: an empty target is not told from one with files
HasFilesAlways(outcome) == TRUE

\* len(files) == 0 is false; a failed extraction may have left files
HasFiles(outcome) == outcome # "empty"

\* the nested policy pass of the goroutine follows
Nested(outcome) == ~ReturnsOnError(outcome) /\ HasFiles(outcome)

\* the goroutine of a recursion rule: rule.Fn returns an error (t.Errorf,
\* return err), or leaves the target empty (return nil), or leaves files and
\* runConftest starts conftest on the target
RecurseExtract(fx, i) ==
    /\ Task("recurse", fx, i) \in Running(grp)
    /\ LET target == Target(OutputDir(fx), i)
       IN  /\ target \notin DOMAIN disk
           /\ \E outcome \in {"error", "empty", "files"} :
                 /\ disk' = (target :> outcome) @@ disk
                 /\ reports' = IF outcome = "error"
                               THEN Said(Message("Errorf", "error in recursion function",
                                                 TargetBase(target)))
                               ELSE reports
                 /\ IF Nested(outcome)
                    THEN /\ invoked' = Call("conftest", target)
                         /\ UNCHANGED grp
                    ELSE /\ grp' = Return(grp, Task("recurse", fx, i),
                                          IF outcome = "error" THEN <<"extract", fx>>
                                          ELSE Nil)
                         /\ UNCHANGED invoked
    /\ UNCHANGED <<caller, final, at, visited, called, registry, found, received>>
    /\ Apart

\* conftest returns for the target of the rule: runConftest logs or reports
\* the output, and the goroutine returns what runConftest returns
RecurseReturn(fx, i) ==
    /\ Task("recurse", fx, i) \in Running(grp)
    /\ LET target == Target(OutputDir(fx), i)
       IN  /\ target \in DOMAIN disk
           /\ \E ok \in BOOLEAN :
                 /\ reports' = reports (+) RunConftest(ok, target)
                 /\ grp' = Return(grp, Task("recurse", fx, i),
                                  IF ok THEN Nil ELSE <<"conftest", fx>>)
    /\ UNCHANGED <<caller, final, at, visited, called, invoked, registry, found,
                   received, disk>>
    /\ Apart

\* grp.Wait() of walkRenderedChart returns, and Lint with it
WalkBarrier ==
    /\ at = "walkWait"
    /\ WaitReturns(grp)
    /\ at' = "done"
    /\ UNCHANGED <<caller, final, visited, grp, called, invoked, reports, registry,
                   found, received, disk>>
    /\ Apart

(* The options of Lint and the policies directory of each policy pass *)

\* a path is the sequence of its elements; an absolute path begins with "/",
\* and a "/" further on, or an element "", stands for a separator that
\* follows another one
Cwd == <<"/", "work">>
NoPath == <<>>

\* filepath.IsAbs
IsAbs(path) == path # <<>> /\ path[1] = "/"

RECURSIVE CleanElements(_, _, _)
\* the elements of a path that filepath.Clean keeps, out being those kept so
\* far: an empty element and "." are dropped, ".." is dropped with the element
\* before it, a ".." that begins a rooted path is dropped
CleanElements(out, elems, rooted) ==
    IF elems = <<>> THEN out
    ELSE LET e == Head(elems)
         IN  CleanElements(
                 IF e \in {"", ".", "/"} THEN out
                 ELSE IF e = ".." /\ out # <<>> /\ out[Len(out)] # ".."
                 THEN SubSeq(out, 1, Len(out) - 1)
                 ELSE IF e = ".." /\ rooted THEN out
                 ELSE Append(out, e),
                 Tail(elems), rooted)

\* filepath.Clean: the shortest path of the same meaning, "." for the empty one
Clean(path) ==
    LET rooted == IsAbs(path)
        out    == CleanElements(<<>>, IF rooted THEN Tail(path) ELSE path, rooted)
    IN  IF rooted THEN <<"/">> \o out
        ELSE IF out = <<>> THEN <<".">> ELSE out

\* filepath.Join of two elements: empty elements are ignored and the result
\* is cleaned; the empty path if both are empty
filepathJoin(a, b) == IF a = <<>> /\ b = <<>> THEN <<>> ELSE Clean(a \o b)

\* filepath.Abs: an absolute path is cleaned, a relative one is joined with
\* the working directory
Abs(path) == IF IsAbs(path) THEN Clean(path) ELSE filepathJoin(Cwd, path)

\* the directories the caller names
ChartDirValues == {<<"c1">>}
PolicyValues == {<<"bad-policies">>, <<"/", "shared">>, <<"..", "shared">>}

\* how many options the caller passes to Lint
MaxArgs == 3

\* the options, as values; applying one is ApplyOption
WithChartDir(dir) == [opt |-> "WithChartDir", dir |-> dir, opts |-> <<>>]
WithPoliciesDir(dir) == [opt |-> "WithPoliciesDir", dir |-> dir, opts |-> <<>>]
WithRecursion(ruleArgs) == [opt |-> "WithRecursion", dir |-> NoPath, opts |-> ruleArgs]

RuleOptionLists == {<<>>} \cup { <<WithPoliciesDir(p)>> : p \in PolicyValues }
OptionSet ==
    { WithChartDir(c) : c \in ChartDirValues }
        \cup { WithPoliciesDir(p) : p \in PolicyValues }
        \cup { WithRecursion(r) : r \in RuleOptionLists }
ArgLists == UNION { [1..n -> OptionSet] : n \in 0..MaxArgs }

\* options.chartRelPath
chartRelPath(c, path, defaultPath) ==
    LET p == IF path = NoPath THEN defaultPath ELSE path
    IN  Abs(IF ~IsAbs(p) THEN filepathJoin(c.ChartDir, p) ELSE p)

\* options.Finalize, as far as the directories go
FinalizePaths(c) ==
    LET abs == [c EXCEPT !.ChartDir = Abs(c.ChartDir)]
    IN  [abs EXCEPT !.PoliciesDir = chartRelPath(abs, abs.PoliciesDir, <<"policies">>)]

\* the function WithChartDir or WithPoliciesDir returns, applied to c
SetDir(c, opt) ==
    IF opt.opt = "WithChartDir" THEN [c EXCEPT !.ChartDir = opt.dir]
    ELSE [c EXCEPT !.PoliciesDir = opt.dir]

\* a bug: the rule does not start from the policies directory of the caller
RuleOptionsFresh(c) == [ChartDir |-> c.ChartDir, PoliciesDir |-> NoPath]

\* ruleOpts := &options{ChartDir: o.ChartDir, PoliciesDir: o.PoliciesDir}
RuleOptions(c) == [ChartDir |-> c.ChartDir, PoliciesDir |-> c.PoliciesDir]

\* for _, opt := range opts { opt(ruleOpts) }
RECURSIVE ApplyRuleOptions(_, _)
ApplyRuleOptions(r, ruleArgs) ==
    IF ruleArgs = <<>> THEN r
    ELSE ApplyRuleOptions(SetDir(r, Head(ruleArgs)), Tail(ruleArgs))

\* o.Recursions = append(o.Recursions, &recursionRule{Fn: fn, Opts: ruleOpts})
AppendRule(c, ruleOpts) == [c EXCEPT !.Recursions = Append(@, ruleOpts)]

\* opt(o), for each of the three options
ApplyOption(c, opt) ==
    IF opt.opt = "WithRecursion"
    THEN AppendRule(c, FinalizePaths(ApplyRuleOptions(RuleOptions(c), opt.opts)))
    ELSE SetDir(c, opt)

\* the finalized policies directories a run can come to
PolicyPaths ==
    { chartRelPath([ChartDir |-> Abs(c)], p, <<"policies">>) :
        c \in ChartDirValues \cup {NoPath}, p \in PolicyValues \cup {NoPath} }

\* opts := &options{}; for _, opt := range args { opt(opts) }
RECURSIVE ApplyOptions(_, _)
ApplyOptions(c, list) ==
    IF list = <<>> THEN c
    ELSE ApplyOptions(ApplyOption(c, Head(list)), Tail(list))

\* the options Lint comes to when it is passed the list: the loop over the
\* arguments, then opts.Finalize()
LintOptions(list) ==
    FinalizePaths(ApplyOptions([ChartDir |-> NoPath, PoliciesDir |-> NoPath,
                                Recursions |-> <<>>], list))

\* the output directory the policy passes of this machine are made for
PolicyFixture == RunFixtures[1]

\* the policies directories of a run with the list of options, and the
\* directories it has conftest test: the output directory and the target of
\* each rule
PoliciesOf(list) ==
    LET c == LintOptions(list)
    IN  {c.PoliciesDir} \cup { c.Recursions[r].PoliciesDir : r \in 1..Len(c.Recursions) }
TestedBy(list) ==
    {OutputDir(PolicyFixture)}
        \cup { Target(OutputDir(PolicyFixture), r - 1) :
                 r \in 1..Len(LintOptions(list).Recursions) }

\* the answers of conftest: the pairs of a policies directory and a directory
\* tested in which it finds a violation
BrokenSets(list) ==
    { b \in SUBSET (PoliciesOf(list) \X TestedBy(list)) : Cardinality(b) <= 2 }

\* conftest test --policy policiesDir dir finds a violation
Violates(policiesDir, dir) == <<policiesDir, dir>> \in broken

\* the variables of the other machines stay as they are
OptApart ==
    /\ LintApart
    /\ UNCHANGED scanVars
    /\ UNCHANGED <<caller, called, registry, found, received>>

\* for _, opt := range args { opt(opts) }: the next option is applied
OptionApply ==
    /\ at = "options"
    /\ rest # <<>>
    /\ optns' = ApplyOption(optns, Head(rest))
    /\ rest' = Tail(rest)
    /\ UNCHANGED <<given, broken, at, final, visited, grp, invoked, reports, disk>>
    /\ OptApart

\* opts.Finalize() and grp.SetLimit(opts.Concurrency); the run comes to
\* walkRenderedChart
OptionsFinalize ==
    /\ at = "options"
    /\ rest = <<>>
    /\ optns' = FinalizePaths(optns)
    /\ final' = Finalize(caller)
    /\ at' = "passes"
    /\ UNCHANGED <<given, rest, broken, visited, grp, invoked, reports, disk>>
    /\ OptApart

\* what walkRenderedChart submits for the output directory, in this order:
\* the policy pass, then the recursion rules (the caller gave no visitor)
PassItems ==
    <<Task("conftest", PolicyFixture, 0)>>
        \o [r \in 1..Len(optns.Recursions) |-> Task("recurse", PolicyFixture, r - 1)]

\* the call each goroutine starts with: conftest with opts.PoliciesDir, or
\* rule.Fn(dir, target)
PassCall(t) ==
    IF t.kind = "conftest"
    THEN Call("conftest", <<optns.PoliciesDir, OutputDir(t.name)>>)
    ELSE Call("extract", <<Itoa(t.i)>> \o OutputDir(t.name)
                             \o Target(OutputDir(t.name), t.i))

\* the loops of walkRenderedChart come to the next item: os.MkdirAll of a
\* rule's target fails (t.Errorf, continue), or grp.Go returns with the
\* goroutine started
PassGo ==
    /\ at = "passes"
    /\ visited < Len(PassItems)
    /\ LET t == PassItems[visited + 1]
       IN  \/ /\ t.kind = "recurse"
              /\ reports' = Said(Message("Errorf", "unable to create recursion directory",
                                         TargetBase(Target(OutputDir(t.name), t.i))))
              /\ UNCHANGED <<grp, invoked>>
           \/ /\ CanGo(grp)
              /\ grp' = Go(grp, t)
              /\ invoked' = PassCall(t)
              /\ UNCHANGED reports
    /\ visited' = visited + 1
    /\ UNCHANGED <<given, rest, optns, broken, at, final, disk>>
    /\ OptApart

\* conftest returns for the output directory: runConftest(t, opts.PoliciesDir,
\* dir) logs or reports the output and the goroutine returns
TopPolicyPass ==
    /\ Task("conftest", PolicyFixture, 0) \in Running(grp)
    /\ LET t   == Task("conftest", PolicyFixture, 0)
           dir == OutputDir(PolicyFixture)
           ok  == ~Violates(optns.PoliciesDir, dir)
       IN  /\ reports' = reports (+) RunConftest(ok, dir)
           /\ grp' = Return(grp, t, IF ok THEN Nil ELSE <<"conftest", t.name>>)
    /\ UNCHANGED <<given, rest, optns, broken, at, final, visited, invoked, disk>>
    /\ OptApart

\* the goroutine of rule i: rule.Fn returns an error (t.Errorf, return err),
\* or leaves the target empty (return nil), or leaves files and
\* runConftest(t, rule.Opts.PoliciesDir, target) starts conftest
RuleExtract(i) ==
    /\ Task("recurse", PolicyFixture, i) \in Running(grp)
    /\ LET t      == Task("recurse", PolicyFixture, i)
           target == Target(OutputDir(PolicyFixture), i)
           policy == optns.Recursions[i + 1].PoliciesDir
       IN  /\ target \notin DOMAIN disk
           /\ \E outcome \in {"error", "empty", "files"} :
                 /\ disk' = (target :> outcome) @@ disk
                 /\ reports' = IF outcome = "error"
                               THEN Said(Message("Errorf", "error in recursion function",
                                                 TargetBase(target)))
                               ELSE reports
                 /\ IF Nested(outcome)
                    THEN /\ invoked' = Call("conftest", <<policy, target>>)
                         /\ UNCHANGED grp
                    ELSE /\ grp' = Return(grp, t,
                                          IF outcome = "error" THEN <<"extract", t.name>>
                                          ELSE Nil)
                         /\ UNCHANGED invoked
    /\ UNCHANGED <<given, rest, optns, broken, at, final, visited>>
    /\ OptApart

\* conftest returns for the target of rule i: runConftest logs or reports the
\* output, and the goroutine returns what runConftest returns
RulePolicyPass(i) ==
    /\ Task("recurse", PolicyFixture, i) \in Running(grp)
    /\ LET t      == Task("recurse", PolicyFixture, i)
           target == Target(OutputDir(PolicyFixture), i)
           ok     == ~Violates(optns.Recursions[i + 1].PoliciesDir, target)
       IN  /\ target \in DOMAIN disk
           /\ reports' = reports (+) RunConftest(ok, target)
           /\ grp' = Return(grp, t, IF ok THEN Nil ELSE <<"conftest", t.name>>)
    /\ UNCHANGED <<given, rest, optns, broken, at, final, visited, invoked, disk>>
    /\ OptApart

\* the loops have ended and grp.Wait() of walkRenderedChart returns
PassesDone ==
    /\ at = "passes"
    /\ visited = Len(PassItems)
    /\ WaitReturns(grp)
    /\ at' = "done"
    /\ UNCHANGED <<given, rest, optns, broken, final, visited, grp, invoked, reports, disk>>
    /\ OptApart

-----------------------------------------------------------------------------
(* discoverComments, step by step: the appends of the scan goroutines *)

\* how many lines a rendered file has
MaxScanLines == 2

\* the lines of the rendered files: plain text and markers
ScanLineSet ==
    { PlainLine, MarkerPrefix \o <<"u1">>, Indented(1, MarkerPrefix \o <<"u2">>) }
ScanFileSet == UNION { [1..n -> ScanLineSet] : n \in 0..MaxScanLines }

ScanTask(fx) == Task("scan", fx, 0)

\* the variables of the other machines stay as they are
ScanApart ==
    /\ LintApart
    /\ UNCHANGED optVars
    /\ UNCHANGED <<caller, final, at, visited, called, invoked, reports, registry,
                   found, received, disk, outputs>>

\* file, err := os.Open(path): the goroutine returns the error, or goes on to
\* the loop over the lines
ScanOpen(fx) ==
    /\ ScanTask(fx) \in Running(grp)
    /\ scanner[fx].pc = "open"
    /\ \/ /\ grp' = Return(grp, ScanTask(fx), <<"open", fx>>)
          /\ scanner' = [scanner EXCEPT ![fx].pc = "done"]
       \/ /\ scanner' = [scanner EXCEPT ![fx].pc = "line"]
          /\ UNCHANGED grp
    /\ UNCHANGED <<mu, acc>>
    /\ ScanApart

\* the loop body up to the append, with the position the goroutine takes at a
\* line that holds the prefix: r.Scan() is false and the goroutine returns
\* nil, or the line is read and tested with strings.Contains(line, prefix)
ScanLineThen(fx, onMarker) ==
    /\ ScanTask(fx) \in Running(grp)
    /\ scanner[fx].pc = "line"
    /\ IF scanner[fx].k = Len(outputs[fx])
       THEN /\ grp' = Return(grp, ScanTask(fx), Nil)
            /\ scanner' = [scanner EXCEPT ![fx].pc = "done"]
       ELSE /\ scanner' =
                  IF Contains(outputs[fx][scanner[fx].k + 1], MarkerPrefix)
                  THEN [scanner EXCEPT ![fx].pc = onMarker]
                  ELSE [scanner EXCEPT ![fx].k = @ + 1]
            /\ UNCHANGED grp
    /\ UNCHANGED <<mu, acc>>
    /\ ScanApart

\* for r.Scan() { ... if strings.Contains(line, prefix) { lock.Lock() ...
ScanLine(fx) == ScanLineThen(fx, "lock")

\* a bug: the lock is given to a goroutine while another one holds it
CanLockAlways(holder) == TRUE

\* lock.Lock() returns when no goroutine holds the lock
CanLock(holder) == holder = ""

\* lock.Lock()
ScanLock(fx) ==
    /\ scanner[fx].pc = "lock"
    /\ CanLock(mu)
    /\ mu' = fx
    /\ scanner' = [scanner EXCEPT ![fx].pc = "read"]
    /\ UNCHANGED <<grp, acc>>
    /\ ScanApart

\* append(ids, ...), first half: the slice value (pointer, length, capacity)
\* is loaded
ScanAppendRead(fx) ==
    /\ scanner[fx].pc = "read"
    /\ scanner' = [scanner EXCEPT ![fx].local = acc, ![fx].pc = "write"]
    /\ UNCHANGED <<grp, mu, acc>>
    /\ ScanApart

\* the slice the assignment ids = append(ids, token) stores: the elements of
\* the loaded value and the token of the line
Appended(fx) ==
    Append(scanner[fx].local, ExtractToken(outputs[fx][scanner[fx].k + 1]))

\* ids = append(ids, ...), second half, under the lock
ScanAppendWrite(fx) ==
    /\ scanner[fx].pc = "write"
    /\ acc' = Appended(fx)
    /\ scanner' = [scanner EXCEPT ![fx].pc = "unlock"]
    /\ UNCHANGED <<grp, mu>>
    /\ ScanApart

\* lock.Unlock(), and on to the next line
ScanUnlock(fx) ==
    /\ scanner[fx].pc = "unlock"
    /\ mu' = ""
    /\ scanner' = [scanner EXCEPT ![fx].pc = "line", ![fx].k = @ + 1]
    /\ UNCHANGED <<grp, acc>>
    /\ ScanApart

\* the walk reports an error: discoverComments returns (nil, err) at once
DiscoverWalkFails ==
    /\ at = "scan"
    /\ received' = <<>>
    /\ AfterDiscover(<<"walk">>)
    /\ UNCHANGED <<caller, final, visited, grp, called, invoked, registry, found, disk>>
    /\ Apart

\* return ids, grp.Wait(): the slice as it is when every goroutine has returned
DiscoverReturn ==
    /\ at = "scanWait"
    /\ WaitReturns(grp)
    /\ received' = acc
    /\ AfterDiscover(grp.err)
    /\ UNCHANGED <<caller, final, visited, grp, called, invoked, registry, found, disk>>
    /\ Apart

\* the discoverComments of src/lint.go: the append is made without a lock
\* for r.Scan() { ... if strings.Contains(line, prefix) { ids = append(...
RacyLine(fx) == ScanLineThen(fx, "read")

\* ids = append(ids, ...), second half, and on to the next line
RacyAppendWrite(fx) ==
    /\ scanner[fx].pc = "write"
    /\ acc' = Appended(fx)
    /\ scanner' = [scanner EXCEPT ![fx].pc = "line", ![fx].k = @ + 1]
    /\ UNCHANGED <<grp, mu>>
    /\ ScanApart

-----------------------------------------------------------------------------
(* run of src/main.go, the command line: one group for every goroutine *)

\* the limits runtime.NumCPU() * 2 the runs are made with
MainLimits == {2, 4}

\* the walk of injectComments ends and injectComments returns the registry
\* and the result of the walk, without grp.Wait(); run goes on to the fixtures
MainInjectWalkDone ==
    /\ at = "inject"
    /\ visited = Len(RunFiles)
    /\ at' = "render"
    /\ visited' = 0
    /\ called' = called \cup {"renderChart"}
    /\ UNCHANGED <<caller, final, grp, invoked, reports, registry, found, received, disk>>
    /\ Apart

\* run returns, saying what is in said, and its deferred function runs: with
\* -preserve the temporary directory is kept and named on standard output,
\* otherwise os.RemoveAll(dir) removes it (its error is dropped)
MainReturn(said, preserve) ==
    /\ reports' = IF preserve
                  THEN (reports (+) said)
                           (+) SetToBag({Message("Fprintf", "Preserving temporary directory", Nil)})
                  ELSE reports (+) said
    /\ disk' = IF preserve THEN disk ELSE (TempDir :> "removed") @@ disk

\* the start of run: srcChart is empty or os.MkdirTemp fails and run returns
\* at once; or the deferred function is set up and cp fails, or cp has copied
\* the chart and injectComments is entered
MainSetup ==
    /\ at = "setup"
    /\ \/ /\ \E msg \in {"chart directory is required", "creating tempdir"} :
                reports' = Said(Message("return", msg, Nil))
          /\ at' = "fatal"
          /\ UNCHANGED <<called, invoked, disk>>
       \/ /\ invoked' = Call("cp", <<"chart">>)
          /\ \E preserve \in BOOLEAN :
                MainReturn(SetToBag({Message("return", "copying chart", Nil)}), preserve)
          /\ at' = "fatal"
          /\ UNCHANGED called
       \/ /\ invoked' = Call("cp", <<"chart">>)
          /\ called' = {"injectComments"}
          /\ at' = "inject"
          /\ UNCHANGED <<reports, disk>>
    /\ UNCHANGED <<caller, final, visited, grp, registry, found, received>>
    /\ Apart

\* the walk reports an error: run returns "injecting comments: ..."
MainInjectWalkFails ==
    /\ at = "inject"
    /\ \E preserve \in BOOLEAN :
          MainReturn(SetToBag({Message("return", "injecting comments", <<"walk">>)}), preserve)
    /\ at' = "fatal"
    /\ UNCHANGED <<caller, final, visited, grp, called, invoked, registry, found, received>>
    /\ Apart

\* os.ReadDir(finalFixturesDir) fails: run returns the error
MainReadDirFails ==
    /\ at = "render"
    /\ visited = 0
    /\ \E preserve \in BOOLEAN :
          MainReturn(SetToBag({Message("return", "reading fixtures directory", Nil)}), preserve)
    /\ at' = "fatal"
    /\ UNCHANGED <<caller, final, visited, grp, called, invoked, registry, found, received>>
    /\ Apart

\* if err := grp.Wait(); err != nil { return err }: the first Wait of run
MainRenderBarrier ==
    /\ at = "renderWait"
    /\ WaitReturns(grp)
    /\ IF grp.err # Nil
       THEN /\ \E preserve \in BOOLEAN :
                  MainReturn(SetToBag({Message("return", "first error", grp.err)}), preserve)
            /\ at' = "fatal"
            /\ UNCHANGED called
       ELSE /\ at' = "scan"
            /\ called' = called \cup {"discoverComments"}
            /\ UNCHANGED <<reports, disk>>
    /\ UNCHANGED <<caller, final, visited, grp, invoked, registry, found, received>>
    /\ Apart

\* discoverComments(resultsDir) reads the rendered files one after the other
\* in the calling goroutine; on an error run returns
MainDiscover ==
    /\ at = "scan"
    /\ \/ /\ \E preserve \in BOOLEAN :
                MainReturn(SetToBag({Message("return", "discovering comments", <<"walk">>)}),
                           preserve)
          /\ at' = "fatal"
          /\ UNCHANGED <<found, received>>
       \/ \E tokens \in SUBSET registry :
             /\ found' = tokens
             /\ received' = tokens
             /\ at' = "verify"
             /\ UNCHANGED <<reports, disk>>
    /\ UNCHANGED <<caller, final, visited, grp, called, invoked, registry>>
    /\ Apart

\* the goroutine of entry id: slices.Contains(ids, id), or the failure is
\* printed and an error returned
MainVerifyReturn(id) ==
    /\ Task("verify", id, 0) \in Running(grp)
    /\ IF id \in received
       THEN /\ grp' = Return(grp, Task("verify", id, 0), Nil)
            /\ UNCHANGED reports
       ELSE /\ reports' = Said(Message("Fprintf", "Branch was not found", <<id>>))
            /\ grp' = Return(grp, Task("verify", id, 0), <<"branch not found">>)
    /\ UNCHANGED <<caller, final, at, visited, called, invoked, registry, found,
                   received, disk>>
    /\ Apart

\* the loop over comments has ended; the loop over outputDirs follows at once
MainVerifyLoopDone ==
    /\ at = "verify"
    /\ \A id \in registry : Task("verify", id, 0) \in DOMAIN grp.status
    /\ at' = "walk"
    /\ visited' = 0
    /\ UNCHANGED <<caller, final, grp, called, invoked, reports, registry, found,
                   received, disk>>
    /\ Apart

\* the loop over outputDirs submits conftest for the next output directory
MainConftestGo ==
    /\ at = "walk"
    /\ visited < Len(RunFixtures)
    /\ CanGo(grp)
    /\ grp' = Go(grp, Task("conftest", RunFixtures[visited + 1], 0))
    /\ invoked' = Call("conftest", OutputDir(RunFixtures[visited + 1]))
    /\ visited' = visited + 1
    /\ UNCHANGED <<caller, final, at, called, reports, registry, found, received, disk>>
    /\ Apart

MainConftestLoopDone ==
    /\ at = "walk"
    /\ visited = Len(RunFixtures)
    /\ at' = "walkWait"
    /\ UNCHANGED <<caller, final, visited, grp, called, invoked, reports, registry,
                   found, received, disk>>
    /\ Apart

\* conftest returns: its output is printed, its error returned
MainConftestReturn(fx) ==
    /\ Task("conftest", fx, 0) \in Running(grp)
    /\ reports' = Said(Message("Fprintf", "Conftest output", <<fx>>))
    /\ \E ok \in BOOLEAN :
          grp' = Return(grp, Task("conftest", fx, 0), IF ok THEN Nil ELSE <<"conftest", fx>>)
    /\ UNCHANGED <<caller, final, at, visited, called, invoked, registry, found,
                   received, disk>>
    /\ Apart

\* if grp.Wait() != nil { return fmt.Errorf("test failure") }; return nil
MainFinish ==
    /\ at = "walkWait"
    /\ WaitReturns(grp)
    /\ \E preserve \in BOOLEAN :
          MainReturn(IF grp.err # Nil
                     THEN SetToBag({Message("return", "test failure", Nil)})
                     ELSE EmptyBag, preserve)
    /\ at' = "done"
    /\ UNCHANGED <<caller, final, visited, grp, called, invoked, registry, found, received>>
    /\ Apart

-----------------------------------------------------------------------------
(* Specifications *)

LintIdle ==
    /\ pristine = Empty
    /\ copy = Empty
    /\ comments = Empty
    /\ nextId = 0
    /\ task = Empty
    /\ rendered = Empty
    /\ scanned = Empty
    /\ seenIDs = <<>>
    /\ verified = {}
    /\ errors = EmptyBag
    /\ written = {}
    /\ prev = [ids |-> Empty, seenIDs |-> <<>>, chart |-> Empty, rendered |-> Empty]
    /\ run = 1

\* a Lint run on one of the generated charts, in either mode
Init ==
    /\ fi = FindOff
    /\ chart \in ChartSet
    /\ opts \in [WriteExceptions : BOOLEAN]
    /\ fixtures = Fixtures
    /\ pc = "copy"
    /\ LintIdle
    /\ RunIdle

Next ==
    \/ CopyChart
    \/ \E f \in YamlFiles : InjectRead(f)
    \/ \E f \in YamlFiles : InjectLine(f)
    \/ \E f \in YamlFiles : InjectWrite(f)
    \/ InjectWait
    \/ \E fx \in fixtures : Render(fx)
    \/ RenderWait
    \/ \E fx \in fixtures, f \in YamlFiles : Scan(fx, f)
    \/ ScanWait
    \/ \E id \in DOMAIN comments : VerifyTask(id)
    \/ VerifyWait
    \/ \E f \in Files : InjectExceptionsFile(f)
    \/ InjectExceptionsReturn

Spec == Init /\ [][Next]_vars

\* runs with a single fixture; an exception-mode run is followed by a second run
InitRerun ==
    /\ fi = FindOff
    /\ chart \in ChartSet
    /\ opts \in [WriteExceptions : BOOLEAN]
    /\ fixtures = {"f1"}
    /\ pc = "copy"
    /\ LintIdle
    /\ RunIdle

NextRerun == Next \/ Rerun

SpecRerun == InitRerun /\ [][NextRerun]_vars

\* charts whose a.yaml is a conditional with an else branch
ElseContents ==
    { Join(<<Indented(n, IfLine), PlainLine, Indented(n, alt), ElseBodyLine, EndLine>>) :
          n \in 0..MaxIndent, alt \in {ElseLine, ElseIfLine} }

InitElse ==
    /\ fi = FindOff
    /\ \E a \in ElseContents :
          chart = [f \in Files |-> IF f = "a.yaml" THEN a ELSE Join(<<IfLine>>)]
    /\ opts \in [WriteExceptions : BOOLEAN]
    /\ fixtures = Fixtures
    /\ pc = "copy"
    /\ LintIdle
    /\ RunIdle

SpecElse == InitElse /\ [][Next]_vars

\* charts whose a.yaml has a declaration below a line that ends in "|": a
\* declaration with the indicator after it, or the header of a block scalar
HeaderContents ==
    { Join(<<Indented(h, first), Indented(b, IfLine)>>) :
          h \in 0..MaxIndent, b \in 0..MaxIndent,
          first \in {IfLine \o <<" ", "|">>, HeaderLine} }

InitHeader ==
    /\ fi = FindOff
    /\ \E a \in HeaderContents :
          chart = [f \in Files |-> IF f = "a.yaml" THEN a ELSE Join(<<IfLine>>)]
    /\ opts \in [WriteExceptions : BOOLEAN]
    /\ fixtures = {"f1"}
    /\ pc = "copy"
    /\ LintIdle
    /\ RunIdle

SpecHeader == InitHeader /\ [][Next]_vars

\* runs in which the walk of discoverComments can fail
InitScanFault ==
    /\ fi = FindOff
    /\ \E body \in {<<IfLine>>, <<IfLine, PlainLine>>, <<PlainLine, IfLine>>, <<IfLine, IfLine>>} :
          chart = [f \in Files |-> IF f = "a.yaml" THEN Join(body) ELSE Join(<<IfLine>>)]
    /\ opts \in [WriteExceptions : BOOLEAN]
    /\ fixtures = Fixtures
    /\ pc = "copy"
    /\ LintIdle
    /\ RunIdle

NextScanFault == Next \/ ScanWalkError

SpecScanFault == InitScanFault /\ [][NextScanFault]_vars

\* charts whose a.yaml is a block scalar: a header with h leading spaces and a
\* body with b > h leading spaces that holds a declaration
ScalarBodies ==
    { <<IfLine>>, <<IfLine, PlainLine>>, <<PlainLine, IfLine>>, <<IfLine, IfLine>> }

ScalarContents ==
    { Join(<<Indented(h, HeaderLine)>> \o [k \in 1..Len(body) |-> Indented(b, body[k])]) :
          h \in 0..MaxIndent, b \in 1..(MaxIndent + 2), body \in ScalarBodies }

InitScalar ==
    /\ fi = FindOff
    /\ \E a \in ScalarContents :
          /\ LeadingSpaces(Split(a)[2]) > LeadingSpaces(Split(a)[1])
          /\ chart = [f \in Files |-> IF f = "a.yaml" THEN a ELSE Join(<<IfLine>>)]
    /\ opts \in [WriteExceptions : BOOLEAN]
    /\ fixtures = {"f1"}
    /\ pc = "copy"
    /\ LintIdle
    /\ RunIdle

SpecScalar == InitScalar /\ [][Next]_vars

\* Lint, task by task, for every choice of the caller and every outcome
InitRun ==
    /\ fi = FindOff
    /\ chart = Empty
    /\ opts = [WriteExceptions |-> FALSE]
    /\ fixtures = {}
    /\ pc = "off"
    /\ LintIdle
    /\ caller \in Callers
    /\ final = [WriteExceptions |-> FALSE, Concurrency |-> 0]
    /\ at = "finalize"
    /\ visited = 0
    /\ grp = [status |-> Empty, err |-> Nil]
    /\ called = {}
    /\ invoked = EmptyBag
    /\ reports = EmptyBag
    /\ registry = {}
    /\ found = {}
    /\ received = {}
    /\ disk = Empty
    /\ OptIdle
    /\ ScanIdle

NextRun ==
    \/ LintFinalize
    \/ \E stage \in SetupStages : LintSetupFails(stage)
    \/ InjectVisit
    \/ InjectWalkFails
    \/ InjectWalkDone
    \/ \E f \in DOMAIN TokenOf : InjectRegister(f)
    \/ \E f \in DOMAIN TokenOf : InjectReturn(f)
    \/ InjectBarrier
    \/ RenderReadDirFails
    \/ RenderGo
    \/ RenderLoopDone
    \/ \E k \in 1..Len(RunFixtures) : RenderReturn(RunFixtures[k])
    \/ RenderBarrier
    \/ ScanVisit
    \/ ScanWalkFails
    \/ ScanWalkDone
    \/ \E k \in 1..Len(RunFixtures) : ScanOpened(RunFixtures[k])
    \/ \E k \in 1..Len(RunFixtures), id \in registry :
          ScanAppended(RunFixtures[k], id)
    \/ \E k \in 1..Len(RunFixtures) : ScanReturn(RunFixtures[k])
    \/ ScanBarrier
    \/ InjectExceptionsRun
    \/ \E f \in DOMAIN TokenOf : InjectExceptionsWrite(f)
    \/ InjectExceptionsEnd
    \/ VerifyEnter
    \/ \E id \in registry : VerifyGo(id)
    \/ VerifyLoopDone
    \/ \E id \in registry : VerifyReturn(id)
    \/ VerifyBarrier
    \/ WalkGo
    \/ WalkLoopDone
    \/ \E k \in 1..Len(RunFixtures) : ConftestReturn(RunFixtures[k])
    \/ \E k \in 1..Len(RunFixtures), v \in 1..Len(RunVisitors) :
          VisitorReturn(RunFixtures[k], v - 1)
    \/ \E k \in 1..Len(RunFixtures), r \in 1..Len(RunRules) :
          RecurseExtract(RunFixtures[k], r - 1)
    \/ \E k \in 1..Len(RunFixtures), r \in 1..Len(RunRules) :
          RecurseReturn(RunFixtures[k], r - 1)
    \/ WalkBarrier
    \/ Cleanup

SpecRun == InitRun /\ [][NextRun]_vars

\* the runs of Lint with a budget given to WithMaxConcurrency (the environment
\* variable is left unset: exception mode is chosen by the option), when the
\* scheduler lets a goroutine that can take a step take one and every
\* external call and every callback returns
InitRunFair == InitRun /\ caller.Env = "" /\ caller.Concurrency # 0

SpecRunFair == InitRunFair /\ [][NextRun]_vars /\ WF_vars(NextRun)

\* Lint from the options of the caller to the policy passes of one output
\* directory, for every list of options and every pair of violations
InitOptions ==
    /\ fi = FindOff
    /\ chart = Empty
    /\ opts = [WriteExceptions |-> FALSE]
    /\ fixtures = {}
    /\ pc = "off"
    /\ LintIdle
    /\ caller = [WithWriteExceptions |-> FALSE, Env |-> "", Concurrency |-> 0]
    /\ final = [WriteExceptions |-> FALSE, Concurrency |-> 0]
    /\ at = "options"
    /\ visited = 0
    /\ grp = [status |-> Empty, err |-> Nil]
    /\ called = {}
    /\ invoked = EmptyBag
    /\ reports = EmptyBag
    /\ registry = {}
    /\ found = {}
    /\ received = {}
    /\ disk = Empty
    /\ given \in ArgLists
    /\ rest = given
    /\ optns = [ChartDir |-> NoPath, PoliciesDir |-> NoPath, Recursions |-> <<>>]
    /\ broken \in BrokenSets(given)
    /\ ScanIdle

NextOptions ==
    \/ OptionApply
    \/ OptionsFinalize
    \/ PassGo
    \/ TopPolicyPass
    \/ \E i \in 0..(MaxArgs - 1) : RuleExtract(i)
    \/ \E i \in 0..(MaxArgs - 1) : RulePolicyPass(i)
    \/ PassesDone

SpecOptions == InitOptions /\ [][NextOptions]_vars

\* discoverComments on two rendered files, for every content of the files and
\* every interleaving of the steps of the two scan goroutines
InitScanLocked ==
    /\ fi = FindOff
    /\ chart = Empty
    /\ opts = [WriteExceptions |-> FALSE]
    /\ fixtures = {}
    /\ pc = "off"
    /\ LintIdle
    /\ caller = [WithWriteExceptions |-> FALSE, Env |-> "", Concurrency |-> 2]
    /\ final = Finalize(caller)
    /\ at = "scan"
    /\ visited = 0
    /\ grp = [status |-> Empty, err |-> Nil]
    /\ called = {"injectComments", "renderChart", "discoverComments"}
    /\ invoked = EmptyBag
    /\ reports = EmptyBag
    /\ registry = {}
    /\ found = {}
    /\ received = <<>>
    /\ disk = Empty
    /\ OptIdle
    /\ outputs \in [{RunFixtures[k] : k \in 1..Len(RunFixtures)} -> ScanFileSet]
    /\ scanner = [fx \in {RunFixtures[k] : k \in 1..Len(RunFixtures)} |->
                    [pc |-> "open", k |-> 0, local |-> <<>>]]
    /\ mu = ""
    /\ acc = <<>>

NextScanLocked ==
    \/ ScanVisit
    \/ DiscoverWalkFails
    \/ ScanWalkDone
    \/ \E k \in 1..Len(RunFixtures) :
          \/ ScanOpen(RunFixtures[k])
          \/ ScanLine(RunFixtures[k])
          \/ ScanLock(RunFixtures[k])
          \/ ScanAppendRead(RunFixtures[k])
          \/ ScanAppendWrite(RunFixtures[k])
          \/ ScanUnlock(RunFixtures[k])
    \/ DiscoverReturn

SpecScanLocked == InitScanLocked /\ [][NextScanLocked]_vars

\* the same for the discoverComments of src/lint.go
NextScanRacy ==
    \/ ScanVisit
    \/ DiscoverWalkFails
    \/ ScanWalkDone
    \/ \E k \in 1..Len(RunFixtures) :
          \/ ScanOpen(RunFixtures[k])
          \/ RacyLine(RunFixtures[k])
          \/ ScanAppendRead(RunFixtures[k])
          \/ RacyAppendWrite(RunFixtures[k])
    \/ DiscoverReturn

SpecScanRacy == InitScanLocked /\ [][NextScanRacy]_vars

\* run of src/main.go, for every outcome of every step and goroutine
InitMain ==
    /\ fi = FindOff
    /\ chart = Empty
    /\ opts = [WriteExceptions |-> FALSE]
    /\ fixtures = {}
    /\ pc = "off"
    /\ LintIdle
    /\ caller \in [WithWriteExceptions : {FALSE}, Env : {""}, Concurrency : MainLimits]
    /\ final = [WriteExceptions |-> FALSE, Concurrency |-> caller.Concurrency]
    /\ at = "setup"
    /\ visited = 0
    /\ grp = [status |-> Empty, err |-> Nil]
    /\ called = {}
    /\ invoked = EmptyBag
    /\ reports = EmptyBag
    /\ registry = {}
    /\ found = {}
    /\ received = {}
    /\ disk = Empty
    /\ OptIdle
    /\ ScanIdle

NextMain ==
    \/ MainSetup
    \/ InjectVisit
    \/ MainInjectWalkFails
    \/ MainInjectWalkDone
    \/ \E f \in DOMAIN TokenOf : InjectRegister(f)
    \/ \E f \in DOMAIN TokenOf : InjectReturn(f)
    \/ MainReadDirFails
    \/ RenderGo
    \/ RenderLoopDone
    \/ \E k \in 1..Len(RunFixtures) : RenderReturn(RunFixtures[k])
    \/ MainRenderBarrier
    \/ MainDiscover
    \/ \E id \in registry : VerifyGo(id)
    \/ MainVerifyLoopDone
    \/ \E id \in registry : MainVerifyReturn(id)
    \/ MainConftestGo
    \/ MainConftestLoopDone
    \/ \E k \in 1..Len(RunFixtures) : MainConftestReturn(RunFixtures[k])
    \/ MainFinish

SpecMain == InitMain /\ [][NextMain]_vars

\* calls of findIndentation on generated line sequences
InitFind ==
    /\ \E ls \in FindInputs : \E s \in 0..(Len(ls) - 1) :
          fi = [lines |-> ls, start |-> s, i |-> s, reads |-> {}, result |-> 0,
                pc |-> "loop"]
    /\ chart = Empty
    /\ opts = [WriteExceptions |-> FALSE]
    /\ fixtures = {}
    /\ pc = "off"
    /\ LintIdle
    /\ RunIdle

NextFind == FindScan \/ FindFallback

SpecFind == InitFind /\ [][NextFind]_vars

-----------------------------------------------------------------------------
(* Vocabulary of the claims, stated on the text and not on the code *)

\* the number of spaces a line begins with
LeadingSpaceCount(line) ==
    CHOOSE n \in 0..Len(line) :
        /\ \A k \in 1..n : line[k] = " "
        /\ n < Len(line) => line[n + 1] # " "

\* the last atom of the line that is not white space is the indicator "|"
EndsInBlockScalarIndicator(line) ==
    \E k \in 1..Len(line) :
        /\ line[k] = "|"
        /\ \A h \in (k + 1)..Len(line) : line[h] \in WhiteSpace

\* the line holds "{{", an optional "-", optional white space and then "if"
HasIfOpeningTag(line) ==
    \E k, m \in 1..Len(line) :
        /\ k < m
        /\ line[k] = "{{"
        /\ line[m] = "if"
        /\ \A h \in (k + 1)..(m - 1) :
              \/ line[h] \in WhiteSpace
              \/ h = k + 1 /\ line[h] = "-"

\* the line holds the suppression annotation text
MentionsIgnore(line) == \E k \in 1..Len(line) : line[k] = "helmlint:ignore"

\* line i (zero-based) of lines is a declaration that is not suppressed
IsDeclaration(lines, i) ==
    /\ HasIfOpeningTag(lines[i + 1])
    /\ ~MentionsIgnore(lines[i + 1])
    /\ i > 0 => ~MentionsIgnore(lines[i])

\* the lines of a file
LinesOf(content) == Split(content)

\* the declarations of the chart the run began with, as (file, line index) pairs
Declarations ==
    { d \in UNION { {f} \X (0..(Len(LinesOf(pristine[f])) - 1)) : f \in YamlFiles } :
        IsDeclaration(LinesOf(pristine[d[1]]), d[2]) }

\* the registry entries of file f at line i
EntriesAt(ids, f, i) ==
    { id \in DOMAIN ids : ids[id].File = RelPath[f] /\ ids[id].Line = i }

\* the token occurs in the list
Occurs(list, id) == \E k \in 1..Len(list) : list[k] = <<id>>

\* how often the token occurs in the list
Occurrences(list, id) == Cardinality({ k \in 1..Len(list) : list[k] = <<id>> })

\* the line is the marker of token id: spaces, the prefix, the token
IsMarkerOf(line, id) ==
    \E n \in 0..Len(line) : line = [k \in 1..n |-> " "] \o <<"# helmlint:", " ", id>>

\* the line is the marker of some entry of the registry
IsMarker(line) == \E id \in DOMAIN comments : IsMarkerOf(line, id)

\* the line is a suppression annotation: spaces, then the annotation
IsAnnotationLine(line) ==
    \E n \in 0..Len(line) :
        line = [k \in 1..n |-> " "] \o <<"{{", "/*", " ", "helmlint:ignore", " ", "*/}}">>

\* the number of lines among the first p that are no markers
PlainCount(lines, p) == Cardinality({ k \in 1..p : ~IsMarker(lines[k]) })

\* injectComments has returned in the current run
Injected == pc \in {"render", "scan", "reconcile", "reconciled"}

-----------------------------------------------------------------------------
(* Claims *)

\* C1: in verification mode verifyCoverage reports exactly one failure for
\* every registry entry whose token does not occur in the list of surviving
\* tokens and none for an entry whose token occurs in it, however often: the
\* number of failures is the number of uncovered entries, and each failure
\* names the entry's file, line and declaration text.
C1_OneFailurePerUncoveredEntry ==
    (pc = "reconciled" /\ ~opts.WriteExceptions) =>
        LET failure(id) ==
                [text |-> "Branch was not found in the rendered chart output",
                 File |-> comments[id].File, Line |-> comments[id].Line,
                 Expr |-> comments[id].Expr]
            uncovered == { id \in DOMAIN comments : ~Occurs(seenIDs, id) }
        IN  /\ BagCardinality(errors) = Cardinality(uncovered)
            /\ \A id \in DOMAIN comments :
                  CopiesIn(failure(id), errors) = IF id \in uncovered THEN 1 ELSE 0

\* C1, witness: verification has ended with two uncovered entries reported
\* and an entry that two fixtures rendered
C1_Witness ==
    /\ pc = "reconciled"
    /\ ~opts.WriteExceptions
    /\ BagCardinality(errors) = 2
    /\ \E id \in DOMAIN comments : Occurrences(seenIDs, id) = 2

\* C3: after injectComments has returned, with the files instrumented
\* concurrently, the registry holds exactly one entry per declaration that is
\* not suppressed: as many entries as such lines over all .yaml files, and for
\* each of them one entry with the file's path relative to the root, the
\* zero-based line index and the trimmed text of the line.
C3_RegistryMatchesDeclarations ==
    Injected =>
        /\ Cardinality(DOMAIN comments) = Cardinality(Declarations)
        /\ \A d \in Declarations :
              /\ Cardinality(EntriesAt(comments, d[1], d[2])) = 1
              /\ \A id \in EntriesAt(comments, d[1], d[2]) :
                    comments[id].Expr = TrimSpace(LinesOf(pristine[d[1]])[d[2] + 1])

\* C3, witness: two files were instrumented in turns, the second token going
\* to b.yaml and the first and third to a.yaml, one of them for an indented line
C3_Witness ==
    /\ pc = "render"
    /\ DOMAIN comments = {Uuid(1), Uuid(2), Uuid(3)}
    /\ comments[Uuid(1)].File = RelPath["a.yaml"]
    /\ comments[Uuid(2)].File = RelPath["b.yaml"]
    /\ comments[Uuid(3)].File = RelPath["a.yaml"]
    /\ comments[Uuid(3)].Expr = IfTrimLine

\* C4: in an instrumented file the marker of each declaration is the line right
\* after the declaration's own line and carries the declaration's token, and
\* deleting the marker lines gives back the original lines in their order.
C4_MarkerFollowsDeclaration ==
    Injected =>
        \A f \in YamlFiles :
            LET orig == LinesOf(pristine[f])
                inst == LinesOf(copy[f])
            IN  /\ SelectSeq(inst, LAMBDA l : ~IsMarker(l)) = orig
                /\ \A id \in DOMAIN comments :
                      comments[id].File = RelPath[f] =>
                          \E p \in 1..(Len(inst) - 1) :
                              /\ ~IsMarker(inst[p])
                              /\ PlainCount(inst, p) = comments[id].Line + 1
                              /\ inst[p] = orig[comments[id].Line + 1]
                              /\ IsMarkerOf(inst[p + 1], id)

\* C4, witness: a file with two declarations on consecutive lines is instrumented
C4_Witness ==
    /\ pc = "render"
    /\ Cardinality(EntriesAt(comments, "a.yaml", 0)) = 1
    /\ Cardinality(EntriesAt(comments, "a.yaml", 1)) = 1
    /\ Len(LinesOf(copy["a.yaml"])) = 4

\* C5: a line of an instrumented file gets a registry entry and a marker if and
\* only if it holds the if-opening tag, does not hold the suppression text and
\* the line before it, if any, does not hold it either; a declaration right
\* after an instrumented declaration is instrumented too.
C5_InstrumentedIffDeclaration ==
    Injected =>
        \A f \in YamlFiles :
            LET orig == LinesOf(pristine[f])
                inst == LinesOf(copy[f])
            IN  /\ \A i \in 0..(Len(orig) - 1) :
                      (EntriesAt(comments, f, i) # {}) <=>
                          /\ HasIfOpeningTag(orig[i + 1])
                          /\ ~MentionsIgnore(orig[i + 1])
                          /\ ~(i > 0 /\ MentionsIgnore(orig[i]))
                /\ Cardinality({ p \in 1..Len(inst) : IsMarker(inst[p]) })
                      = Cardinality({ i \in 0..(Len(orig) - 1) : EntriesAt(comments, f, i) # {} })

\* C5, witness: in one file a declaration follows an instrumented declaration
\* and both have entries, in the other a declaration is suppressed by the line
\* before it
C5_Witness ==
    /\ pc = "render"
    /\ LinesOf(pristine["a.yaml"]) = <<IfLine, IfLine>>
    /\ EntriesAt(comments, "a.yaml", 0) # {}
    /\ EntriesAt(comments, "a.yaml", 1) # {}
    /\ LinesOf(pristine["b.yaml"]) = <<Annotation, IfLine>>
    /\ EntriesAt(comments, "b.yaml", 1) = {}

\* the indices at or before start whose line ends in the block-scalar indicator
HeadersUpTo(lines, start) ==
    { j \in 0..start : EndsInBlockScalarIndicator(lines[j + 1]) }

\* the largest element of a non-empty set of integers
Largest(S) == CHOOSE j \in S : \A h \in S : h <= j

\* "   foo: |", "# foobar", "  {{ if foo }}"
ExampleLines ==
    << <<" ", " ", " ", "k:", " ", "|">>,
       <<"#", " ", "x">>,
       <<" ", " ", "{{", " ", "if", " ", ".x}}">> >>

\* C6: findIndentation(lines, start) returns the leading-space count of the
\* nearest line at or before start whose trimmed content ends in "|", plus 2,
\* and the leading-space count of lines[start] when there is no such line; for
\* "   foo: |", "# foobar", "  {{ if foo }}" and start 2 the result is 5.
C6_NearestHeaderPlusTwo ==
    /\ fi.pc = "done" =>
          LET headers == HeadersUpTo(fi.lines, fi.start)
          IN  fi.result = IF headers # {}
                          THEN LeadingSpaceCount(fi.lines[Largest(headers) + 1]) + 2
                          ELSE LeadingSpaceCount(fi.lines[fi.start + 1])
    /\ fi.pc = "done" => fi.result = findIndentation(fi.lines, fi.start)
    /\ findIndentation(ExampleLines, 2) = 5

\* C6, witness: the call ended at a header above start, nearer than another
\* header with a different indentation, and the header has trailing white space
C6_Witness ==
    /\ fi.pc = "done"
    /\ fi.start = 2
    /\ HeadersUpTo(fi.lines, fi.start) = {0, 1}
    /\ LeadingSpaceCount(fi.lines[1]) # LeadingSpaceCount(fi.lines[2])
    /\ fi.lines[2][Len(fi.lines[2])] = " "
    /\ fi.result = LeadingSpaceCount(fi.lines[2]) + 2

\* C7 as stated: findIndentation never reads a line at an index below 0, and
\* for a declaration at line index 0 it returns that line's own leading-space
\* count.
C7_LineZeroOwnIndentation ==
    /\ fi.pc # "panic"
    /\ \A r \in fi.reads : r >= 0
    /\ (fi.pc = "done" /\ fi.start = 0 /\ HasIfOpeningTag(fi.lines[1])) =>
          fi.result = LeadingSpaceCount(fi.lines[1])

\* C7, amended: findIndentation never reads a line at an index below 0, and
\* for a declaration at line index 0 it returns that line's own leading-space
\* count, plus 2 when the line itself ends in the block-scalar indicator.
C7_LineZeroIndentation ==
    /\ fi.pc # "panic"
    /\ \A r \in fi.reads : r >= 0 /\ r <= fi.start
    /\ (fi.pc = "done" /\ fi.start = 0 /\ HasIfOpeningTag(fi.lines[1])) =>
          fi.result = LeadingSpaceCount(fi.lines[1])
                        + (IF EndsInBlockScalarIndicator(fi.lines[1]) THEN 2 ELSE 0)

\* C7, witness: the call for a declaration at line index 0 that ends in the
\* indicator has read index 0 only and returned the line's indentation plus 2
C7_Witness ==
    /\ fi.pc = "done"
    /\ fi.start = 0
    /\ fi.reads = {0}
    /\ HasIfOpeningTag(fi.lines[1])
    /\ EndsInBlockScalarIndicator(fi.lines[1])
    /\ LeadingSpaceCount(fi.lines[1]) = 1
    /\ fi.result = 3

\* the uncovered entries of a registry, given a list of surviving tokens
UncoveredIn(ids, list) == { id \in DOMAIN ids : ~Occurs(list, id) }

\* the line indices of file f that ids has an uncovered entry for
UncoveredLines(ids, list, f) ==
    { ids[id].Line : id \in { t \in UncoveredIn(ids, list) : ids[t].File = RelPath[f] } }

\* where line i of the original file stands (one-based) in the file rewritten
\* with one annotation line before each line of U
Shifted(U, i) == i + 1 + Cardinality({ u \in U : u <= i })

\* C9: in exception mode injectExceptions inserts into the file of the
\* caller's chart exactly one annotation line right before the line of each
\* uncovered declaration, also when a file has several; it inserts nothing for
\* a covered declaration, keeps every other line unchanged and in order, and
\* does not write a file without uncovered declaration.
C9_OneAnnotationBeforeEachUncovered ==
    (pc = "reconciled" /\ opts.WriteExceptions) =>
        \A f \in Files :
            LET orig == LinesOf(pristine[f])
                now  == LinesOf(chart[f])
                U    == IF f \in YamlFiles
                        THEN UncoveredLines(comments, seenIDs, f) ELSE {}
            IN  /\ (f \in written) <=> (U # {})
                /\ U = {} => chart[f] = pristine[f]
                /\ Len(now) = Len(orig) + Cardinality(U)
                /\ \A i \in 0..(Len(orig) - 1) :
                      /\ now[Shifted(U, i)] = orig[i + 1]
                      /\ i \in U => IsAnnotationLine(now[Shifted(U, i) - 1])

\* C9, witness: a.yaml had two uncovered declarations and got two annotations,
\* b.yaml had a covered declaration and was not written
C9_Witness ==
    /\ pc = "reconciled"
    /\ opts.WriteExceptions
    /\ UncoveredLines(comments, seenIDs, "a.yaml") = {0, 1}
    /\ EntriesAt(comments, "b.yaml", 0) # {}
    /\ UncoveredLines(comments, seenIDs, "b.yaml") = {}
    /\ written = {"a.yaml"}
    /\ Len(LinesOf(chart["a.yaml"])) = 4

\* the second run has instrumented the chart the first run rewrote
Reinstrumented == run = 2 /\ Injected

\* C10: after injectExceptions has rewritten the chart using a registry R and
\* a list S, injectComments on the rewritten tree yields a registry with no
\* entry for a declaration that was uncovered in (R, S) and exactly one entry
\* for every declaration that was covered; its size is the number of tokens of
\* R that occur in S.
C10_SuppressedNotReinstrumented ==
    Reinstrumented =>
        LET R == prev.ids
            S == prev.seenIDs
        IN  /\ Cardinality(DOMAIN comments)
                  = Cardinality({ id \in DOMAIN R : Occurs(S, id) })
            /\ \A id \in DOMAIN R :
                  LET f    == FileOfRel(R[id].File)
                      line == Shifted(UncoveredLines(R, S, f), R[id].Line) - 1
                      now  == { t \in EntriesAt(comments, f, line) :
                                  comments[t].Expr = R[id].Expr }
                  IN  Cardinality(now) = IF Occurs(S, id) THEN 1 ELSE 0

\* C10, witness: the first run left one declaration of a.yaml uncovered and
\* one covered; the second run has an entry for the covered one only, at its
\* new line index
C10_Witness ==
    /\ Reinstrumented
    /\ pc = "render"
    /\ Cardinality(DOMAIN prev.ids) = 3
    /\ UncoveredLines(prev.ids, prev.seenIDs, "a.yaml") = {0}
    /\ EntriesAt(prev.ids, "a.yaml", 1) # {}
    /\ EntriesAt(comments, "a.yaml", 2) # {}
    /\ EntriesAt(comments, "a.yaml", 1) = {}
    /\ Cardinality(DOMAIN comments) = 2

\* C2 as stated: for every rendered .yaml file and every line of it that
\* contains the marker text "# helmlint: X" of a registry token X, wherever the
\* text stands in the line, the list returned by discoverComments contains X.
C2_MarkerTextIsDiscovered ==
    pc = "reconcile" =>
        \A fx \in fixtures, f \in YamlFiles, X \in DOMAIN comments :
            (\E k \in 1..Len(LinesOf(rendered[fx][f])) :
                 Contains(LinesOf(rendered[fx][f])[k], <<"# helmlint:", " ", X>>))
                => Occurs(seenIDs, X)

-----------------------------------------------------------------------------
(* The block scalar of YAML, for C8 *)

\* the line holds white space only
IsBlank(line) == \A k \in 1..Len(line) : line[k] \in WhiteSpace

\* the positions after the header at position hdr that hold text
TextAfter(lines, hdr) == { k \in (hdr + 1)..Len(lines) : ~IsBlank(lines[k]) }

Smallest(S) == CHOOSE j \in S : \A h \in S : j <= h

\* the indentation of the scalar's content: that of its first line with text
ContentIndent(lines, hdr) ==
    LeadingSpaceCount(lines[Smallest(TextAfter(lines, hdr))])

\* the positions of the scalar's body: the lines after the header up to the
\* first line with text that is indented less than the content
BodyLines(lines, hdr) ==
    IF TextAfter(lines, hdr) = {}
         \/ ContentIndent(lines, hdr) <= LeadingSpaceCount(lines[hdr])
    THEN {}
    ELSE { k \in (hdr + 1)..Len(lines) :
             \A j \in (hdr + 1)..k :
                 IsBlank(lines[j]) \/ LeadingSpaceCount(lines[j]) >= ContentIndent(lines, hdr) }

\* the body lines without the content indentation
ScalarText(lines, hdr) ==
    [k \in 1..Cardinality(BodyLines(lines, hdr)) |->
        IF IsBlank(lines[hdr + k]) THEN <<>>
        ELSE SubSeq(lines[hdr + k], ContentIndent(lines, hdr) + 1, Len(lines[hdr + k]))]

\* the final line breaks of a scalar are clipped
RECURSIVE Clip(_)
Clip(text) ==
    IF text = <<>> \/ text[Len(text)] # <<>> THEN text
    ELSE Clip(SubSeq(text, 1, Len(text) - 1))

\* the value of the scalar at the header, the marker lines left out
ScalarValue(lines, hdr) ==
    Clip(SelectSeq(ScalarText(lines, hdr), LAMBDA l : ~IsMarker(l)))

\* C8 as stated: a marker inserted for a declaration inside a block scalar
\* does not change the document's structure: for every body indentation the
\* marker line stays part of the scalar's body, so the rendered instrumented
\* file has the same scalar, apart from the marker lines, as the rendered
\* original file.
C8_MarkerKeepsScalar ==
    (Injected /\ EndsInBlockScalarIndicator(LinesOf(pristine["a.yaml"])[1])) =>
        LET before == LinesOf(RenderTemplate(pristine["a.yaml"], {}))
            after  == LinesOf(RenderTemplate(copy["a.yaml"], DOMAIN comments))
        IN  /\ \A k \in 1..Len(after) : IsMarker(after[k]) => k \in BodyLines(after, 1)
            /\ ScalarValue(after, 1) = ScalarValue(before, 1)

-----------------------------------------------------------------------------
(* The caller's chart *)

\* C11: when exception mode is off, no step of a Lint run changes a file of
\* the caller's chart directory: the markers go to the private copy only.
C11_OriginalUntouchedInVerifyMode ==
    [][~opts.WriteExceptions => chart' = chart]_vars

\* a verification run has ended; its copy holds markers, the chart does not
C11_Witness ==
    /\ ~opts.WriteExceptions
    /\ pc = "reconciled"
    /\ \E f \in YamlFiles : copy[f] # pristine[f]
    /\ chart = pristine

-----------------------------------------------------------------------------
(* The stages of a run *)

\* the goroutines of one kind that have been submitted
Submitted(kind) == { t \in DOMAIN grp.status : t.kind = kind }

\* every goroutine of the kind, one for each name, was submitted and has returned
AllReturned(kind, names) ==
    \A k \in 1..Len(names) :
        /\ Task(kind, names[k], 0) \in DOMAIN grp.status
        /\ grp.status[Task(kind, names[k], 0)] # "running"

FailedOf(kind) == { t \in Submitted(kind) : grp.status[t] = "err" }

Reconciling == "verifyCoverage" \in called \/ "injectExceptions" \in called

PastReconcile == at \in {"exceptions", "verify", "verifyWait", "walk", "walkWait", "done"}

\* how often t was told m
Told(m) == CopiesIn(m, reports)

\* how often the command was run with the arguments
Ran(cmd, args) == CopiesIn([cmd |-> cmd, args |-> args], invoked)

\* C12: the exception-writing path runs only when the caller opted in, by
\* WithWriteExceptions or by HELMLINT_WRITE_EXCEPTIONS=true, and is off by
\* default; a run that has come past reconciliation has executed exactly one
\* of verifyCoverage and injectExceptions.
C12_ExceptionsOnlyOnOptIn ==
    /\ "injectExceptions" \in called =>
          (caller.WithWriteExceptions \/ caller.Env = "true")
    /\ (at # "finalize" /\ ~caller.WithWriteExceptions /\ caller.Env = "") =>
          ~final.WriteExceptions
    /\ ~({"verifyCoverage", "injectExceptions"} \subseteq called)
    /\ PastReconcile => Reconciling

\* exception mode was switched on by the environment alone, and the run ended
C12_Witness ==
    /\ at = "done"
    /\ ~caller.WithWriteExceptions
    /\ caller.Env = "true"
    /\ "injectExceptions" \in called
    /\ "verifyCoverage" \notin called

\* C13 as stated: in every run, also one in which the walk of a stage reports
\* an error, no render starts before every instrumentation goroutine has
\* returned, no scan starts before every render has returned, and
\* reconciliation starts only after every scan goroutine has returned.
C13_StagesSeparatedByBarriers ==
    /\ Submitted("render") # {} => AllReturned("inject", RunFiles)
    /\ Submitted("scan") # {} => AllReturned("render", RunFixtures)
    /\ Reconciling => \A t \in Submitted("scan") : grp.status[t] # "running"

\* C14: if the render of a fixture fails, the run is aborted: nothing is
\* scanned, reconciled, walked or evaluated, and the abort comes only after
\* helm was run once for every fixture and every render has returned.
C14_RenderFailureAbortsAfterAllRenders ==
    FailedOf("render") # {} =>
        /\ at \in {"render", "renderWait", "fatal"}
        /\ called = {"injectComments", "renderChart"}
        /\ \A t \in DOMAIN grp.status : t.kind \in {"inject", "render"}
        /\ at = "fatal" =>
              /\ AllReturned("render", RunFixtures)
              /\ \A k \in 1..Len(RunFixtures) : Ran("helm", OutputDir(RunFixtures[k])) = 1

\* the first fixture failed, the second rendered, and the run was aborted
C14_Witness ==
    /\ at = "fatal"
    /\ Task("render", "f1", 0) \in FailedOf("render")
    /\ Task("render", "f2", 0) \in DOMAIN grp.status
    /\ grp.status[Task("render", "f2", 0)] = "ok"

\* C15 as stated: every fixture whose render fails is reported with its name:
\* when k fixtures fail, the run reports k render failures.
C15_EveryRenderFailureReported ==
    at = "fatal" =>
        \A t \in FailedOf("render") :
            Told(Message("Fatalf", "rendering chart", RenderErr(t.name))) = 1

\* a read or a write of a source file has failed
SourceFailed(f) ==
    /\ CopyPath(f) \in DOMAIN disk
    /\ disk[CopyPath(f)] \in {"read failed", "write failed"}

\* C16: if reading or writing a source file fails during instrumentation,
\* the run is aborted and nothing is rendered, scanned, reconciled or
\* evaluated in it; a file another goroutine has rewritten stays rewritten.
C16_SourceFailureAborts ==
    /\ [] ((\E f \in DOMAIN TokenOf : SourceFailed(f)) =>
              /\ at \in {"inject", "injectWait", "fatal"}
              /\ called = {"injectComments"}
              /\ \A c \in DOMAIN invoked : c = CopyChartCall
              /\ \A t \in DOMAIN grp.status : t.kind = "inject")
    /\ [][\A f \in DOMAIN TokenOf :
             (CopyPath(f) \in DOMAIN disk /\ disk[CopyPath(f)] = "rewritten") =>
                 (CopyPath(f) \in DOMAIN disk' /\ disk'[CopyPath(f)] = "rewritten")]_vars

\* the run was aborted: one file is rewritten, the write of the other failed
C16_Witness ==
    /\ at = "fatal"
    /\ CopyPath("a.yaml") \in DOMAIN disk
    /\ disk[CopyPath("a.yaml")] = "rewritten"
    /\ CopyPath("b.yaml") \in DOMAIN disk
    /\ disk[CopyPath("b.yaml")] = "write failed"

-----------------------------------------------------------------------------
(* walkRenderedChart *)

\* the (output directory, rule) pairs
Pairs == { <<RunFixtures[k], r - 1>> : k \in 1..Len(RunFixtures), r \in 1..Len(RunRules) }

PairTarget(p) == Target(OutputDir(p[1]), p[2])

\* the arguments of the extraction call of a pair
ExtractArgs(p) == <<Itoa(p[2])>> \o OutputDir(p[1]) \o PairTarget(p)

\* os.MkdirAll of the pair's target failed
NoTarget(p) ==
    Told(Message("Errorf", "unable to create recursion directory",
                 TargetBase(PairTarget(p)))) = 1

\* the rule's function was called once for the pair, or the target could not
\* be created and it was not called
PairHandled(p) ==
    \/ Ran("extract", ExtractArgs(p)) = 1 /\ ~NoTarget(p)
    \/ Ran("extract", ExtractArgs(p)) = 0 /\ NoTarget(p)

\* the top-level policy pass was made once for the directory and told once
TopLevelPass(fx) ==
    /\ Ran("conftest", OutputDir(fx)) = 1
    /\ Told(Message("Logf", "Conftest output", <<fx>>))
          + Told(Message("Errorf", "Conftest failure", <<fx>>)) = 1

\* how often the tokens were reported as not found
BranchReports(ids) ==
    Cardinality({ id \in ids : Told(Message("Errorf", "Branch was not found", <<id>>)) = 1 })

\* C17: a coverage failure does not stop the run: a run that has entered
\* verifyCoverage is not aborted, and when it ends, the policy pass, every
\* visitor and every recursion rule (whose target directory could be made) has
\* been run once for every output directory, whatever was reported.
C17_CoverageFailureDoesNotStop ==
    "verifyCoverage" \in called =>
        /\ PastReconcile
        /\ at = "done" =>
              /\ \A k \in 1..Len(RunFixtures) :
                    /\ Ran("conftest", OutputDir(RunFixtures[k])) = 1
                    /\ \A v \in 1..Len(RunVisitors) :
                          Ran("visitor", <<Itoa(v - 1)>> \o OutputDir(RunFixtures[k])) = 1
              /\ \A p \in Pairs : PairHandled(p)

\* both declarations were reported uncovered, and the walk was made in full
C17_Witness ==
    /\ at = "done"
    /\ BranchReports(registry) = 2
    /\ \A p \in Pairs : Ran("extract", ExtractArgs(p)) = 1

\* C18: the top-level policy pass is made exactly once for every output
\* directory; a failing directory is reported exactly once and a passing one is
\* logged exactly once, whatever the other directories did.
C18_OnePolicyPassPerDirectory ==
    /\ \A k \in 1..Len(RunFixtures) : Ran("conftest", OutputDir(RunFixtures[k])) <= 1
    /\ at = "done" =>
          \A k \in 1..Len(RunFixtures) :
              LET fx == RunFixtures[k]
                  t  == Task("conftest", fx, 0)
              IN  /\ Ran("conftest", OutputDir(fx)) = 1
                  /\ t \in DOMAIN grp.status
                  /\ Told(Message("Errorf", "Conftest failure", <<fx>>))
                        = (IF grp.status[t] = "err" THEN 1 ELSE 0)
                  /\ Told(Message("Logf", "Conftest output", <<fx>>))
                        = (IF grp.status[t] = "ok" THEN 1 ELSE 0)

\* the first directory failed its policies, the second passed
C18_Witness ==
    /\ at = "done"
    /\ Told(Message("Errorf", "Conftest failure", <<"f1">>)) = 1
    /\ Told(Message("Logf", "Conftest output", <<"f2">>)) = 1

\* what C19 says of a pair whose extraction function was called
PairExtracted(p) ==
    /\ Ran("extract", ExtractArgs(p)) = 1
    /\ \A q \in Pairs : q # p => PairTarget(q) # PairTarget(p)
    /\ PairTarget(p) \in DOMAIN disk
    /\ disk[PairTarget(p)] = "empty" =>
          /\ Ran("conftest", PairTarget(p)) = 0
          /\ \A m \in DOMAIN reports : m.about # TargetBase(PairTarget(p))
    /\ disk[PairTarget(p)] = "files" => Ran("conftest", PairTarget(p)) = 1

\* C19 as stated: for every pair of an output directory and a recursion rule
\* the extraction function is called exactly once, with a target of its own;
\* an empty target means no nested policy pass and no report, a target with
\* files means exactly one nested policy pass against it.
C19_EveryPairExtractedOnce ==
    at = "done" => \A p \in Pairs : PairExtracted(p)

\* C19, amended: the same for every pair whose target directory could be
\* created; for a pair whose target could not be created, the failure is
\* reported once and the extraction function is not called.
C19_EveryPairWithTargetExtractedOnce ==
    at = "done" =>
        \A p \in Pairs :
            IF NoTarget(p)
            THEN Ran("extract", ExtractArgs(p)) = 0 /\ Ran("conftest", PairTarget(p)) = 0
            ELSE PairExtracted(p)

\* one extraction left its target empty, the other left files
C19_Witness ==
    /\ at = "done"
    /\ \A p \in Pairs : Ran("extract", ExtractArgs(p)) = 1
    /\ disk[PairTarget(<<"f1", 0>>)] = "empty"
    /\ disk[PairTarget(<<"f2", 0>>)] = "files"

\* C20: when a rule's extraction function returns an error for an output
\* directory, the failure is reported exactly once and no nested policy pass
\* is made for that pair; every other pair and every top-level policy pass is
\* still carried out and reported.
C20_ExtractionErrorIsLocal ==
    at = "done" =>
        \A p \in Pairs :
            (PairTarget(p) \in DOMAIN disk /\ disk[PairTarget(p)] = "error") =>
                /\ Told(Message("Errorf", "error in recursion function",
                                TargetBase(PairTarget(p)))) = 1
                /\ Ran("conftest", PairTarget(p)) = 0
                /\ \A q \in Pairs : PairHandled(q)
                /\ \A k \in 1..Len(RunFixtures) : TopLevelPass(RunFixtures[k])

\* the extraction failed for the first directory and left files for the second
C20_Witness ==
    /\ at = "done"
    /\ \A p \in Pairs : Ran("extract", ExtractArgs(p)) = 1
    /\ disk[PairTarget(<<"f1", 0>>)] = "error"
    /\ disk[PairTarget(<<"f2", 0>>)] = "files"
    /\ Ran("conftest", PairTarget(<<"f2", 0>>)) = 1

-----------------------------------------------------------------------------
(* The policies directories, stated on the options the caller wrote *)

\* where the caller's option list declares its recursion rules
RulePositions == { k \in 1..Len(given) : given[k].opt = "WithRecursion" }

\* the position of rule i (zero-based, in the order of declaration)
RulePosition(i) ==
    CHOOSE k \in RulePositions : Cardinality({ j \in RulePositions : j < k }) = i

\* the directory the last top-level option of that name among the first n
\* options of the caller names, if any
LastSetting(name, n) ==
    LET S == { k \in 1..n : given[k].opt = name }
    IN  IF S = {} THEN NoPath
        ELSE given[CHOOSE k \in S : \A j \in S : j <= k].dir

\* the policies directory the options of the rule declared at position k name
OwnPolicies(k) ==
    IF given[k].opts = <<>> THEN NoPath ELSE given[k].opts[Len(given[k].opts)].dir

\* the directory above dir; the root is above itself
Above(dir) == IF Len(dir) > 1 THEN SubSeq(dir, 1, Len(dir) - 1) ELSE dir

RECURSIVE Walked(_, _)
\* the directory one comes to from dir along the elements of a path: ".."
\* leads to the directory above, "." and an empty element lead nowhere, a
\* name leads to the directory of that name below
Walked(dir, elems) ==
    IF elems = <<>> THEN dir
    ELSE Walked(CASE Head(elems) = ".." -> Above(dir)
                  [] Head(elems) \in {".", "", "/"} -> dir
                  [] OTHER -> dir \o <<Head(elems)>>,
                Tail(elems))

\* the directory a path names for a process that works in dir
NamedFrom(dir, path) ==
    IF path # NoPath /\ path[1] = "/" THEN Walked(<<"/">>, Tail(path))
    ELSE Walked(dir, path)

\* the directory a policies setting stands for under a chart setting: the one
\* it names from the chart directory, "policies" if there is none
Directory(chartSetting, policiesSetting) ==
    NamedFrom(NamedFrom(Cwd, chartSetting),
              IF policiesSetting = NoPath THEN <<"policies">> ELSE policiesSetting)

\* no top-level WithChartDir or WithPoliciesDir stands after position k of
\* the caller's options
NoSettingAfter(k) ==
    \A j \in (k + 1)..Len(given) : given[j].opt = "WithRecursion"

\* the policies directories conftest was run with on the directory
PoliciesUsedOn(dir) ==
    { c.args[1] : c \in { x \in BagToSet(invoked) : x.cmd = "conftest" /\ x.args[2] = dir } }

\* the directory the top-level options of the caller stand for
TopLevelDirectory ==
    Directory(LastSetting("WithChartDir", Len(given)),
              LastSetting("WithPoliciesDir", Len(given)))

\* the output directory and the target of rule i
PolicyOutput == OutputDir(PolicyFixture)
PolicyTarget(i) == Target(PolicyOutput, i)

\* the extraction function of rule i was called and left files in its target
ExtractedFiles(i) ==
    PolicyTarget(i) \in DOMAIN disk /\ disk[PolicyTarget(i)] = "files"

\* how many failures of a policy pass were reported for the directory
ConftestFailures(dir) ==
    LET msg == Message("Errorf", "Conftest failure", Base(dir))
    IN  IF msg \in DOMAIN reports THEN reports[msg] ELSE 0

\* C21, as the claim has it: the nested pass of a rule runs against the
\* finalized policies directory of the rule, which is the top-level policies
\* directory only when the rule's own options set a policies directory; the
\* top-level pass runs against the directory the top-level options stand for,
\* whatever the rules were given.
C21_RuleDirectoryEqualOnlyIfExplicit ==
    at = "done" =>
        /\ PoliciesUsedOn(PolicyOutput) = {TopLevelDirectory}
        /\ \A i \in 0..(Cardinality(RulePositions) - 1) :
              /\ PoliciesUsedOn(PolicyTarget(i)) \subseteq {optns.Recursions[i + 1].PoliciesDir}
              /\ PoliciesUsedOn(PolicyTarget(i)) = {TopLevelDirectory}
                    => OwnPolicies(RulePosition(i)) # NoPath

\* C21, amended: the nested pass of a rule runs against the finalized policies
\* directory of the rule, which is the one the rule's own options name or,
\* when they name none, the one the top-level options named when the rule was
\* declared, resolved against the chart directory as set at that point (the
\* default "policies" if none was named); for a rule without a policies
\* option of its own this is the top-level policies directory whenever no
\* top-level WithChartDir or WithPoliciesDir follows the rule; the top-level
\* pass runs against the directory the top-level options stand for, whatever
\* the rules were given.
C21_RuleDirectoryOwnOrInherited ==
    at = "done" =>
        /\ PoliciesUsedOn(PolicyOutput) = {TopLevelDirectory}
        /\ \A i \in 0..(Cardinality(RulePositions) - 1) :
              LET k   == RulePosition(i)
                  own == OwnPolicies(k)
              IN  /\ PoliciesUsedOn(PolicyTarget(i))
                        \subseteq {optns.Recursions[i + 1].PoliciesDir}
                  /\ optns.Recursions[i + 1].PoliciesDir =
                        Directory(LastSetting("WithChartDir", k - 1),
                                  IF own # NoPath THEN own
                                  ELSE LastSetting("WithPoliciesDir", k - 1))
                  /\ (own = NoPath /\ NoSettingAfter(k))
                        => optns.Recursions[i + 1].PoliciesDir = TopLevelDirectory
                  /\ ExtractedFiles(i) => PoliciesUsedOn(PolicyTarget(i)) # {}

\* C21, witness: a rule without options of its own declared after the
\* top-level policies directory ran against that directory, a rule with a
\* directory of its own ran against its own, and the top-level pass against
\* the top-level one
C21_Witness ==
    /\ at = "done"
    /\ given = <<WithPoliciesDir(<<"/", "shared">>), WithRecursion(<<>>),
                 WithRecursion(<<WithPoliciesDir(<<"bad-policies">>)>>)>>
    /\ PoliciesUsedOn(PolicyOutput) = {<<"/", "shared">>}
    /\ PoliciesUsedOn(PolicyTarget(0)) = {<<"/", "shared">>}
    /\ PoliciesUsedOn(PolicyTarget(1)) = {Cwd \o <<"bad-policies">>}

\* C22: when the top-level policies directory is set with WithPoliciesDir and
\* a rule is declared after it without a policies option of its own, the
\* top-level pass and the nested pass of the rule run against the same
\* directory P, and a violation of P in the rendered output and one in the
\* extracted manifests are reported once each.
C22_DeclaredAfterSharesDirectory ==
    at = "done" =>
        \A i \in 0..(Cardinality(RulePositions) - 1) :
            LET k == RulePosition(i)
                S == { j \in 1..Len(given) : given[j].opt = "WithPoliciesDir" }
            IN  (S # {} /\ (\A j \in S : j < k) /\ OwnPolicies(k) = NoPath) =>
                    \E P \in PolicyPaths :
                        /\ PoliciesUsedOn(PolicyOutput) = {P}
                        /\ PoliciesUsedOn(PolicyTarget(i)) \subseteq {P}
                        /\ ExtractedFiles(i) => PoliciesUsedOn(PolicyTarget(i)) = {P}
                        /\ Violates(P, PolicyOutput) => ConftestFailures(PolicyOutput) = 1
                        /\ (ExtractedFiles(i) /\ Violates(P, PolicyTarget(i)))
                              => ConftestFailures(PolicyTarget(i)) = 1

\* the kinds of goroutines a Lint run submits to its errgroup
TaskKinds == {"inject", "render", "scan", "verify", "conftest", "visitor", "recurse"}

\* the budget of the run: what the caller gave to WithMaxConcurrency, and
\* twice the number of processors when the option was not given
Budget == IF caller.Concurrency = 0 THEN 2 * NumCPU ELSE caller.Concurrency

\* C23: at every moment of a Lint run at most as many goroutines are running
\* as the budget given to WithMaxConcurrency allows, counted over the
\* instrumentation, render, scan, coverage, policy, visitor and recursion
\* goroutines together: they are all submitted to the one group.
C23_AtMostBudgetTasksAtOnce ==
    /\ \A t \in DOMAIN grp.status : t.kind \in TaskKinds
    /\ Cardinality(Running(grp)) <= Budget

\* C23, witness: with a budget of two, a policy pass and a visitor are running
\* in walkRenderedChart, which has more to submit and waits
C23_Witness ==
    /\ Budget = 2
    /\ at = "walk"
    /\ visited < Len(WalkItems)
    /\ Cardinality(Running(grp)) = 2
    /\ \E t, u \in Running(grp) : t.kind = "conftest" /\ u.kind = "visitor"

\* the arguments visitor v is called with for the output directory of fx
VisitorArgs(v, fx) == <<Itoa(v)>> \o OutputDir(fx)

\* C24: every registered visitor is called exactly once for every output
\* directory, with the path of that directory, and no visitor is called
\* before the render goroutine of every fixture has returned; with two
\* visitors each of them is called for each directory.
C24_EveryVisitorOncePerDirectory ==
    /\ \A c \in DOMAIN invoked :
          c.cmd = "visitor" =>
              /\ invoked[c] = 1
              /\ \E k \in 1..Len(RunFixtures), v \in 0..(Len(RunVisitors) - 1) :
                    c.args = VisitorArgs(v, RunFixtures[k])
              /\ AllReturned("render", RunFixtures)
    /\ at = "done" =>
          \A k \in 1..Len(RunFixtures), v \in 0..(Len(RunVisitors) - 1) :
              Ran("visitor", VisitorArgs(v, RunFixtures[k])) = 1

\* C24, witness: the run is over and both visitors were called for both
\* output directories
C24_Witness ==
    /\ at = "done"
    /\ Len(RunVisitors) = 2
    /\ Cardinality(Submitted("visitor")) = 4
    /\ \A k \in 1..Len(RunFixtures), v \in 0..1 :
          Ran("visitor", VisitorArgs(v, RunFixtures[k])) = 1

\* the fixture has rendered the text of the else branch of a.yaml
ElseRendered(fx) ==
    fx \in DOMAIN rendered /\ Contains(rendered[fx]["a.yaml"], ElseBodyLine)

\* C25: for a chart whose a.yaml has a conditional with an else branch, when
\* no fixture has rendered the else branch and every other branch was
\* rendered (the token of every registry entry is in the list), a Lint run in
\* verification mode reports exactly one failure, and its text says that the
\* branch was not found.
C25_UnrenderedElseReported ==
    (/\ pc = "reconciled"
     /\ ~opts.WriteExceptions
     /\ \A fx \in fixtures : ~ElseRendered(fx)
     /\ \A id \in DOMAIN comments : Occurs(seenIDs, id))
        => /\ BagCardinality(errors) = 1
           /\ \A e \in DOMAIN errors :
                 e.text = "Branch was not found in the rendered chart output"

\* the number of spaces before the marker of the entry in the instrumented copy
MarkerIndentation(f, id) ==
    LET ls == LinesOf(copy[f])
    IN  LeadingSpaceCount(ls[CHOOSE k \in 1..Len(ls) : IsMarkerOf(ls[k], id)])

\* the number of spaces before the annotation written for line i of file f
AnnotationIndentation(f, i) ==
    LeadingSpaceCount(
        LinesOf(chart[f])[Shifted(UncoveredLines(comments, seenIDs, f), i) - 1])

\* C26: for every uncovered declaration the annotation written by
\* injectExceptions begins with exactly as many spaces as the marker that
\* injectComments wrote for that declaration, whatever other declarations the
\* file has and in whatever order its uncovered declarations were processed.
C26_AnnotationIndentedAsMarker ==
    (pc = "reconciled" /\ opts.WriteExceptions) =>
        \A f \in YamlFiles :
            \A id \in { t \in UncoveredIn(comments, seenIDs) : comments[t].File = RelPath[f] } :
                AnnotationIndentation(f, comments[id].Line) = MarkerIndentation(f, id)

\* the zero-based indices of the lines of orig that have, in now, a line
\* before them that orig does not have
RECURSIVE InsertedBefore(_, _, _, _)
InsertedBefore(orig, now, i, k) ==
    IF i > Len(orig) \/ k > Len(now) THEN {}
    ELSE IF now[k] = orig[i] THEN InsertedBefore(orig, now, i + 1, k + 1)
    ELSE {i - 1} \cup InsertedBefore(orig, now, i, k + 1)

\* the declarations of file f that the run has suppressed in the caller's chart
SuppressedLines(f) == InsertedBefore(LinesOf(pristine[f]), LinesOf(chart[f]), 1, 1)

\* the marker of the token stands in the output of some fixture
MarkerRendered(id) ==
    \E fx \in DOMAIN rendered : \E f \in YamlFiles :
        Contains(rendered[fx][f], MarkerPrefix \o <<id>>)

\* C27: in exception mode an annotation is written into the caller's chart
\* only for a declaration whose marker is in no rendered output, also when
\* the scan of the outputs has reported an error or returned an incomplete
\* list: no declaration that a fixture rendered is suppressed.
C27_OnlyUnrenderedSuppressed ==
    (pc = "reconciled" /\ opts.WriteExceptions) =>
        \A f \in YamlFiles : \A i \in SuppressedLines(f) :
            \A id \in EntriesAt(comments, f, i) : ~MarkerRendered(id)

\* the tokens the rendered files of the scan machine can hold
ScanTokens == {"u1", "u2"}

\* how many lines of the rendered file of fx are the marker of the token
MarkerLinesIn(fx, id) ==
    Cardinality({ k \in 1..Len(outputs[fx]) : IsMarkerOf(outputs[fx][k], id) })

\* how many lines over all rendered files are the marker of the token
MarkerLines(id) == MarkerLinesIn(RunFixtures[1], id) + MarkerLinesIn(RunFixtures[2], id)

\* discoverComments has returned a list and no error
DiscoverSucceeded ==
    /\ at = "reconcile"
    /\ \A m \in DOMAIN reports : m.msg # "discovering comments"

\* the list Lint received holds one element for every marker line of every
\* rendered file, and nothing else
ListComplete ==
    /\ \A id \in ScanTokens : Occurrences(received, id) = MarkerLines(id)
    /\ \A k \in 1..Len(received) : \E id \in ScanTokens : received[k] = <<id>>

\* C28: with the rendered files scanned concurrently by the discoverComments
\* of part_003, under every interleaving of the scan goroutines the returned
\* list holds exactly one element for every marker line of every scanned
\* file, and a goroutine that is appending holds the lock.
C28_NoTokenLostUnderLock ==
    /\ \A k \in 1..Len(RunFixtures) :
          LET fx == RunFixtures[k]
          IN  scanner[fx].pc \in {"read", "write", "unlock"} => mu = fx
    /\ DiscoverSucceeded => ListComplete

\* C28, witness: both files had two marker lines and the goroutines appended
\* in turns
C28_Witness ==
    /\ DiscoverSucceeded
    /\ received = <<<<"u1">>, <<"u2">>, <<"u1">>, <<"u2">>>>
    /\ MarkerLinesIn(RunFixtures[1], "u1") = 2
    /\ MarkerLinesIn(RunFixtures[2], "u2") = 2

\* C29: with the rendered files scanned concurrently by the discoverComments
\* of src/lint.go, whose goroutines append to one shared list, under every
\* interleaving the returned list holds one element for every marker line of
\* every scanned file: no append is lost to a concurrent one.
C29_NoTokenLostWithoutLock ==
    DiscoverSucceeded =>
        /\ Len(received) = MarkerLines("u1") + MarkerLines("u2")
        /\ ListComplete

\* C30: in run of src/main.go no helm template is started before every
\* instrumentation goroutine that injectComments submitted has returned,
\* that is, has finished rewriting its file.
C30_NoRenderBeforeInstrumented ==
    \A t \in Submitted("render") :
        \A u \in Submitted("inject") : grp.status[u] # "running"

\* the tokens of the registry entries of file f
TokensOf(f) == { id \in DOMAIN comments : comments[id].File = RelPath[f] }

\* C31: once the goroutine of a file has written it, the marker of each of
\* the file's declarations begins with as many spaces as findIndentation
\* gives for the declaration's line on the lines the file had before the
\* run, also when an earlier declaration line, rewritten before it in the
\* same slice, ends in the block scalar indicator.
C31_MarkerIndentedAsOnOriginalLines ==
    \A f \in YamlFiles :
        (f \in DOMAIN task /\ task[f].pc = "done") =>
            \A id \in TokensOf(f) :
                MarkerIndentation(f, id) =
                    findIndentation(Split(pristine[f]), comments[id].Line)

\* the number (zero-based) of the rule declared at position k of the list
RuleNumber(list, k) ==
    Cardinality({ j \in 1..(k - 1) : list[j].opt = "WithRecursion" })

\* the list with the option at position p[n] passed as the n-th one
Reordered(list, p) == [n \in 1..Len(list) |-> list[p[n]]]

\* the policies directory that rule n of the reordered list is given
ReorderedRuleDirectory(list, p, n) ==
    LintOptions(Reordered(list, p)).Recursions[RuleNumber(Reordered(list, p), n) + 1].PoliciesDir

\* C32: the policies directory of the nested pass of each rule is the one
\* Lint gives that rule under every other order of the same options: the
\* rule's finalized directory, and the directory conftest was run with on the
\* rule's target, are the same for every permutation of the options passed.
C32_RuleDirectoryIndependentOfOrder ==
    at = "done" =>
        \A p \in Permutations(1..Len(given)) :
            \A n \in 1..Len(given) :
                given[p[n]].opt = "WithRecursion" =>
                    LET i == RuleNumber(given, p[n])
                    IN  /\ optns.Recursions[i + 1].PoliciesDir =
                              ReorderedRuleDirectory(given, p, n)
                        /\ PoliciesUsedOn(PolicyTarget(i))
                              \subseteq {ReorderedRuleDirectory(given, p, n)}

\* the fixture rendered the marker of the entry in the first run
RenderedBefore(id) ==
    \E fx \in DOMAIN prev.rendered : \E f \in YamlFiles :
        Contains(prev.rendered[fx][f], MarkerPrefix \o <<id>>)

\* the entries of the first run for the declaration that the entry of the
\* second run stands for: the same file, and the line the declaration was at
\* before the annotations of the first run were written above it
EarlierEntries(id) ==
    LET f == FileOfRel(comments[id].File)
    IN  { t \in DOMAIN prev.ids :
            /\ prev.ids[t].File = comments[id].File
            /\ Shifted(UncoveredLines(prev.ids, prev.seenIDs, f), prev.ids[t].Line) - 1
                  = comments[id].Line }

\* the second run has ended, and its renderer has rendered the branches the
\* renderer of the first run rendered, and no other
SecondRunRenderedAlike ==
    /\ run = 2
    /\ pc = "reconciled"
    /\ opts.WriteExceptions
    /\ \A id \in DOMAIN comments :
          MarkerRendered(id) <=> \E t \in EarlierEntries(id) : RenderedBefore(t)

\* C33: when Lint is run in exception mode twice on one chart with the same
\* fixture and the renderer renders the same branches, the second run writes
\* nothing to the chart: no file is written, the chart is as the first run
\* left it, and each file has, over the file the first run was given, one
\* more line for each declaration that run found uncovered and no other.
C33_SecondExceptionRunWritesNothing ==
    SecondRunRenderedAlike =>
        /\ written = {}
        /\ chart = pristine
        /\ \A f \in YamlFiles :
              Len(LinesOf(chart[f])) =
                  Len(LinesOf(prev.chart[f]))
                      + Cardinality(UncoveredLines(prev.ids, prev.seenIDs, f))

\* the positions at which Lint has returned or has been ended by t.Fatalf
Ended == at \in {"done", "fatal"}

\* the positions at which the calling goroutine is in grp.Wait()
Barriers == {"injectWait", "renderWait", "scanWait", "verifyWait", "walkWait"}

\* C34: with a budget of 1 or more, whatever the files, fixtures, visitors
\* and rules do, Lint terminates when every call returns: every run comes to
\* a state in which Lint has returned or was ended by t.Fatalf, it stands at
\* no barrier, no submitted goroutine is still running and the pool has a
\* free place. No submission to the full pool and no barrier holds the run
\* for ever.
C34_LintTerminates ==
    <>(/\ Ended
       /\ at \notin Barriers
       /\ Running(grp) = {}
       /\ final.Concurrency >= 1
       /\ CanGo(grp))

\* C34, witness: a run with a budget of 1 has ended after the submissions of
\* every stage, those of the visitors and rules included, each of which but
\* the first of its stage met a full pool or an empty one
C34_Witness ==
    /\ at = "done"
    /\ final.Concurrency = 1
    /\ Running(grp) = {}
    /\ \A kind \in TaskKinds : Submitted(kind) # {}

=============================================================================
